---- MODULE Spec2Model ----
(***************************************************************************)
(* A model of the geometry algebra, the threaded union, the sparse grid,   *)
(* the bounding boxes and the landmass shape of glt-mc-generator.          *)
(*                                                                         *)
(* The specifications share the variables:                                 *)
(*   SpecGeom  the combinators Union / Unify / Intersect / Mask /          *)
(*             LimitBounds, evaluated over a whole block of space;         *)
(*   SpecTU    UnionThreaded<Vec<G>>: its OnceCell cache, its rayon        *)
(*             workers, and the mutable access to its children;            *)
(*   SpecGrid  Grid<T>: put / put_expand / remove / get / get_mut;         *)
(*   SpecBox   BoundingBox2 / BoundingBox3 of kettenkrad, applied to boxes *)
(*             drawn from a small block of space;                          *)
(*   SpecShape discover: the flood fills that make a landmass shape of a   *)
(*             noise field, run twice on the same field;                   *)
(*   SpecMount generate_mount_points;                                      *)
(*   SpecPack  generate_building_shapes: the packing of buildings;         *)
(*   SpecCity  City::generate_new: the layers and the removal of the       *)
(*             buildings that collide with the pillars above;              *)
(*   SpecDescribe  Unify as a GeometryDescriber writing into WorldData.    *)
(*   SpecTerminates  one call of discover or of the packing, its steps     *)
(*             weakly fair.                                                *)
(* Each leaves the variables of the others at their idle value.           *)
(***************************************************************************)
EXTENDS Integers, Sequences, FiniteSets, TLC

VARIABLES
  kids,      \* SpecGeom: the children handed to a combinator (declaration order)
  out,       \* SpecGeom: the last evaluation: which combinator, its inputs, its answers
  tu_geoms,  \* SpecTU: UnionThreaded.geometries (a Vec)
  tu_cache,  \* SpecTU: UnionThreaded.bounding_box (the OnceCell)
  tu_call,   \* SpecTU: the block_at / block_material_at call in flight, or its result
  tu_bb,     \* SpecTU: the threads calling bounding_box() at the same time
  g_rows,    \* SpecGrid: Grid.rows
  g_columns, \* SpecGrid: Grid.columns
  g_offset,  \* SpecGrid: Grid.offset
  g_last,    \* SpecGrid: the last operation, its arguments and what it returned
  bx_in,     \* SpecBox: the boxes a and b the operations are applied to
  bx_out,    \* SpecBox: the last operation and what it returned
  ls_noise,  \* SpecShape: the size asked for and the seed of the noise field
  ls,        \* SpecShape: the run of discover: its phase, queue, grid and results
  mp,        \* SpecMount: the cell grid, the arguments and the points returned
  pk,        \* SpecPack: the occupancy grid, the buildings placed and the last round
  city,      \* SpecCity: the layers of City::generate_new and the pass over them
  sink       \* SpecDescribe: the composite described, the calls made and the store

vars == <<kids, out, tu_geoms, tu_cache, tu_call, tu_bb, g_rows, g_columns, g_offset, g_last,
          bx_in, bx_out, ls_noise, ls, mp, pk, city, sink>>
geomVars == <<kids, out>>
tuVars == <<tu_geoms, tu_cache, tu_call, tu_bb>>
gridVars == <<g_rows, g_columns, g_offset, g_last>>
boxVars == <<bx_in, bx_out>>
cityVars == <<ls_noise, ls, mp, pk>>
worldVars == <<city, sink>>

(***************************************************************************)
(* Bounds of the model.                                                    *)
(***************************************************************************)
MaxCoord == 1   \* x and y of the sampled points run over -1..MaxCoord
MaxZ == 2       \* z of the sampled points runs over 0..MaxZ
MaxKids == 5    \* longest array / Vec of children given to Union and Unify
MaxGeoms == 3   \* longest Vec held by a UnionThreaded
Callers == 2    \* threads calling UnionThreaded::bounding_box at the same time
MaxOps == 2     \* operations applied to one grid
GridMax == 1    \* grid coordinates run over -1..GridMax
ISizeBits == 3  \* width of isize, the type of grid coordinates
MaxBox == 2     \* x of the corners of the boxes of SpecBox runs over 0..MaxBox
MaxSize == 2    \* the landmass size runs over 0..MaxSize, 1 standing for 1.0

None == <<>>              \* Option::None
Some(v) == <<v>>          \* Option::Some(v)
Panic == <<"panic">>      \* the call unwound (Option::unwrap on None)
Returned(v) == <<"ok", v>> \* the call returned v

Coord == -1..MaxCoord
Zs == 0..MaxZ
Points == Coord \X Coord \X Zs
Points2 == Coord \X Coord

\* the least element of a non-empty set of integers
Lowest(S) == CHOOSE i \in S : \A j \in S : i <= j

Min2(a, b) == IF a <= b THEN a ELSE b
Max2(a, b) == IF a >= b THEN a ELSE b

\* a mod n with a non-negative result, n > 0
rem_euclid(a, n) == a % n

(***************************************************************************)
(* Bounding boxes (src/src/generation.rs and kettenkrad/src/geometry.rs).  *)
(* A point is <<x, y, z>>, a box is [min |-> point, max |-> point].        *)
(***************************************************************************)
IVec3Min(a, b) == <<Min2(a[1], b[1]), Min2(a[2], b[2]), Min2(a[3], b[3])>>
IVec3Max(a, b) == <<Max2(a[1], b[1]), Max2(a[2], b[2]), Max2(a[3], b[3])>>
IVec2Min(a, b) == <<Min2(a[1], b[1]), Min2(a[2], b[2])>>
IVec2Max(a, b) == <<Max2(a[1], b[1]), Max2(a[2], b[2])>>

BoundingBoxNew(a, b) == [min |-> IVec3Min(a, b), max |-> IVec3Max(a, b)]

BoundingBoxJoin(a, b) == [min |-> IVec3Min(a.min, b.min), max |-> IVec3Max(a.max, b.max)]

\* contains(value, min, max) of kettenkrad
contains(value, min, max) == value >= min /\ value <= max

BoundingBox3Contains(b, pos) ==
  /\ contains(pos[1], b.min[1], b.max[1])
  /\ contains(pos[2], b.min[2], b.max[2])
  /\ contains(pos[3], b.min[3], b.max[3])

BoundingBox2Contains(b, pos) ==
  /\ contains(pos[1], b.min[1], b.max[1])
  /\ contains(pos[2], b.min[2], b.max[2])

\* BoundingBox::contains of the generator crate, as UnionThreaded calls it
BoundingBoxContains(b, pos) ==
  /\ pos[1] >= b.min[1] /\ pos[1] <= b.max[1]
  /\ pos[2] >= b.min[2] /\ pos[2] <= b.max[2]
  /\ pos[3] >= b.min[3] /\ pos[3] <= b.max[3]

truncate(pos) == <<pos[1], pos[2]>>

\* the left fold of BoundingBox::join over a non-empty sequence of boxes
RECURSIVE FoldJoin(_)
FoldJoin(boxes) ==
  IF Len(boxes) = 1 THEN boxes[1]
  ELSE BoundingBoxJoin(FoldJoin(SubSeq(boxes, 1, Len(boxes) - 1)), boxes[Len(boxes)])

\* iter().map(Geometry::bounding_box).reduce(BoundingBox::join).unwrap():
\* reduce gives None on an empty iterator and unwrap then panics
ReduceJoinUnwrap(boxes) ==
  IF Len(boxes) = 0 THEN Panic ELSE Returned(FoldJoin(boxes))

(***************************************************************************)
(* Leaves.  A leaf is Materialize(material, Building): the building's      *)
(* walls, each block of them of the one material.                          *)
(***************************************************************************)
BuildingNew(edge1, edge2, level, height) ==
  [edge_min |-> IVec2Min(edge1, edge2), edge_max |-> IVec2Max(edge1, edge2),
   level |-> level, height |-> height]

BuildingTop(b) == b.level + b.height

BuildingBoundingBox(b) ==
  BoundingBoxNew(<<b.edge_min[1], b.edge_min[2], b.level>>,
                 <<b.edge_max[1], b.edge_max[2], BuildingTop(b)>>)

BuildingBlockAt(b, pos) ==
  IF pos[3] >= b.level /\ pos[3] <= BuildingTop(b)
  THEN LET matches_x == b.edge_min[1] = pos[1] \/ b.edge_max[1] = pos[1]
           matches_y == b.edge_min[2] = pos[2] \/ b.edge_max[2] = pos[2]
           within_x == pos[1] >= b.edge_min[1] /\ pos[1] <= b.edge_max[1]
           within_y == pos[2] >= b.edge_min[2] /\ pos[2] <= b.edge_max[2]
           z == pos[3] - b.level
       IN \/ (matches_x /\ matches_y)
          \/ (matches_x /\ within_y /\ ~(rem_euclid(pos[2], 2) = 0 /\ rem_euclid(z, 2) = 0))
          \/ (matches_y /\ within_x /\ ~(rem_euclid(pos[1], 2) = 0 /\ rem_euclid(z, 2) = 0))
  ELSE FALSE

Materialize(material, geometry) == [material |-> material, geometry |-> geometry]

LeafBoundingBox(g) == BuildingBoundingBox(g.geometry)

LeafBlockAt(g, pos) == BuildingBlockAt(g.geometry, pos)

LeafBlockMaterialAt(g, pos) == IF LeafBlockAt(g, pos) THEN Some(g.material) ELSE None

\* The leaves the children are drawn from: overlapping and disjoint walls,
\* two materials.
Leaves ==
  { Materialize("minecraft:gray_concrete", BuildingNew(<<-1, -1>>, <<1, 1>>, 0, 1)),
    Materialize("minecraft:water", BuildingNew(<<0, 0>>, <<1, 1>>, 0, 2)),
    Materialize("minecraft:bedrock", BuildingNew(<<1, -1>>, <<0, 0>>, 1, 0)) }

(***************************************************************************)
(* Union (src/src/generation/union.rs).  g is the sequence of children in  *)
(* declaration order.                                                      *)
(***************************************************************************)
UnionTuple2BlockAt(g, pos) == LeafBlockAt(g[1], pos) \/ LeafBlockAt(g[2], pos)

UnionTuple3BlockAt(g, pos) ==
  LeafBlockAt(g[1], pos) \/ LeafBlockAt(g[2], pos) \/ LeafBlockAt(g[3], pos)

UnionTuple4BlockAt(g, pos) ==
  LeafBlockAt(g[1], pos) \/ LeafBlockAt(g[2], pos) \/ LeafBlockAt(g[3], pos)
    \/ LeafBlockAt(g[4], pos)

\* mutant: the fifth child joined by & instead of |
UnionTuple5BlockAt_AndLast(g, pos) ==
  LeafBlockAt(g[1], pos) \/ LeafBlockAt(g[2], pos) \/ LeafBlockAt(g[3], pos)
    \/ (LeafBlockAt(g[4], pos) /\ LeafBlockAt(g[5], pos))

\* the last operand is joined by the non-short-circuiting | : g5 is evaluated
\* whenever g4 is, and the value is that of ||
UnionTuple5BlockAt(g, pos) ==
  LeafBlockAt(g[1], pos) \/ LeafBlockAt(g[2], pos) \/ LeafBlockAt(g[3], pos)
    \/ (LeafBlockAt(g[4], pos) \/ LeafBlockAt(g[5], pos))

UnionTupleBlockAt(g, pos) ==
  CASE Len(g) = 2 -> UnionTuple2BlockAt(g, pos)
    [] Len(g) = 3 -> UnionTuple3BlockAt(g, pos)
    [] Len(g) = 4 -> UnionTuple4BlockAt(g, pos)
    [] Len(g) = 5 -> UnionTuple5BlockAt(g, pos)

\* Iterator::any over g[i..]: stops at the first child that holds pos
RECURSIVE IterAny(_, _, _)
IterAny(g, i, pos) ==
  IF i > Len(g) THEN FALSE
  ELSE IF LeafBlockAt(g[i], pos) THEN TRUE
  ELSE IterAny(g, i + 1, pos)

UnionArrayBlockAt(g, pos) == IterAny(g, 1, pos)

UnionVecBlockAt(g, pos) == IterAny(g, 1, pos)

\* ret_if_some!(g_i.block_material_at(pos)); ... ; None  from child i on
RECURSIVE RetIfSomeChain(_, _, _)
RetIfSomeChain(g, i, pos) ==
  IF i > Len(g) THEN None
  ELSE IF LeafBlockMaterialAt(g[i], pos) # None THEN LeafBlockMaterialAt(g[i], pos)
  ELSE RetIfSomeChain(g, i + 1, pos)

UnionTupleBlockMaterialAt(g, pos) == RetIfSomeChain(g, 1, pos)

\* mutant: the last child with a material wins
RECURSIVE IterFindMap_Last(_, _, _)
IterFindMap_Last(g, i, pos) ==
  IF i > Len(g) THEN None
  ELSE LET rest == IterFindMap_Last(g, i + 1, pos)
       IN IF rest # None THEN rest ELSE LeafBlockMaterialAt(g[i], pos)

\* Iterator::find_map over g[i..]
RECURSIVE IterFindMap(_, _, _)
IterFindMap(g, i, pos) ==
  IF i > Len(g) THEN None
  ELSE LET m == LeafBlockMaterialAt(g[i], pos)
       IN IF m # None THEN m ELSE IterFindMap(g, i + 1, pos)

UnionArrayBlockMaterialAt(g, pos) == IterFindMap(g, 1, pos)

UnionVecBlockMaterialAt(g, pos) == IterFindMap(g, 1, pos)

ChildBoxes(g) == [i \in 1..Len(g) |-> LeafBoundingBox(g[i])]

\* (G1, G2): BoundingBox::join(b1, b2); longer tuples: [b1, ..].into_iter().reduce(join).unwrap()
UnionTupleBoundingBox(g) ==
  IF Len(g) = 2 THEN Returned(BoundingBoxJoin(LeafBoundingBox(g[1]), LeafBoundingBox(g[2])))
  ELSE ReduceJoinUnwrap(ChildBoxes(g))

UnionArrayBoundingBox(g) == ReduceJoinUnwrap(ChildBoxes(g))

UnionVecBoundingBox(g) == ReduceJoinUnwrap(ChildBoxes(g))

(***************************************************************************)
(* Unify (kettenkrad/src/geometry/unify.rs).                               *)
(***************************************************************************)
\* any!(a, b, ..) expands to a || b || ..
RECURSIVE MacroAny(_, _, _)
MacroAny(g, i, pos) ==
  IF i = Len(g) THEN LeafBlockAt(g[i], pos)
  ELSE LeafBlockAt(g[i], pos) \/ MacroAny(g, i + 1, pos)

UnifyTupleBlockAt(g, pos) == MacroAny(g, 1, pos)

\* $(if let Some(block) = $g.block_material_at(pos) { return Some(block) };)* None
RECURSIVE IfLetChain(_, _, _)
IfLetChain(g, i, pos) ==
  IF i > Len(g) THEN None
  ELSE IF LeafBlockMaterialAt(g[i], pos) # None THEN LeafBlockMaterialAt(g[i], pos)
  ELSE IfLetChain(g, i + 1, pos)

UnifyTupleBlockMaterialAt(g, pos) == IfLetChain(g, 1, pos)

unify_block_at(contents, pos) == IterAny(contents, 1, pos)

unify_block_material_at(contents, pos) == IterFindMap(contents, 1, pos)

(***************************************************************************)
(* Intersect (src/src/generation/intersection.rs).                         *)
(***************************************************************************)
IntersectBoundingBox(g1, g2) == BoundingBoxJoin(LeafBoundingBox(g1), LeafBoundingBox(g2))

IntersectBlockAt(g1, g2, pos) == LeafBlockAt(g1, pos) /\ LeafBlockAt(g2, pos)

\* mutant: the second geometry is not consulted
IntersectBlockMaterialAt_NoG2(g1, g2, pos) == LeafBlockMaterialAt(g1, pos)

\* let block = g1.block_material_at(pos)?; if g2.block_at(pos) { Some(block) } else { None }
IntersectBlockMaterialAt(g1, g2, pos) ==
  LET block == LeafBlockMaterialAt(g1, pos)
  IN IF block = None THEN None
     ELSE IF LeafBlockAt(g2, pos) THEN block ELSE None

(***************************************************************************)
(* Mask (kettenkrad/src/geometry/mask.rs): the generic mask, a geometry,   *)
(* and the two masks that are bounding boxes.                              *)
(***************************************************************************)
BoundingBox2New(p1, p2) == [min |-> IVec2Min(p1, p2), max |-> IVec2Max(p1, p2)]

BoundingBox3New(p1, p2) == [min |-> IVec3Min(p1, p2), max |-> IVec3Max(p1, p2)]

MaskBlockAt(geometry, mask, pos) == LeafBlockAt(mask, pos) /\ LeafBlockAt(geometry, pos)

MaskBlockMaterialAt(geometry, mask, pos) ==
  IF LeafBlockAt(mask, pos) THEN LeafBlockMaterialAt(geometry, pos) ELSE None

MaskBox2BlockAt(geometry, mask, pos) == LeafBlockAt(geometry, pos)

MaskBox2BlockMaterialAt(geometry, mask, pos) == LeafBlockMaterialAt(geometry, pos)

MaskBox3BlockAt(geometry, mask, pos) == LeafBlockAt(geometry, pos)

MaskBox3BlockMaterialAt(geometry, mask, pos) == LeafBlockMaterialAt(geometry, pos)

(***************************************************************************)
(* LimitBounds (src/src/generation/limit_bounds.rs).                       *)
(***************************************************************************)
LimitBoundsNew(geometry, min, max) ==
  [geometry |-> geometry, bounds_min |-> min, bounds_max |-> max]

LimitBoundsBoundingBox(lb) ==
  LET bounding_box == LeafBoundingBox(lb.geometry)
  IN [min |-> <<Max2(bounding_box.min[1], lb.bounds_min[1]),
                Max2(bounding_box.min[2], lb.bounds_min[2]),
                bounding_box.min[3]>>,
      max |-> <<Min2(bounding_box.max[1], lb.bounds_max[1]),
                Min2(bounding_box.max[2], lb.bounds_max[2]),
                bounding_box.max[3]>>]

\* mutant: the point is checked against the rectangle
LimitBoundsBlockAt_Clipped(lb, pos) ==
  /\ pos[1] >= lb.bounds_min[1] /\ pos[1] <= lb.bounds_max[1]
  /\ pos[2] >= lb.bounds_min[2] /\ pos[2] <= lb.bounds_max[2]
  /\ LeafBlockAt(lb.geometry, pos)

LimitBoundsBlockAt(lb, pos) == LeafBlockAt(lb.geometry, pos)

LimitBoundsBlockMaterialAt(lb, pos) == LeafBlockMaterialAt(lb.geometry, pos)

(***************************************************************************)
(* SpecGeom: a combinator is built over the children and sampled at every  *)
(* point of the block of space, as a chunk writer samples a generator.     *)
(***************************************************************************)
RECURSIVE SeqsUpTo(_, _)
SeqsUpTo(S, n) ==
  IF n = 0 THEN {<<>>}
  ELSE LET shorter == SeqsUpTo(S, n - 1)
       IN shorter \cup {Append(q, x) : q \in {r \in shorter : Len(r) = n - 1}, x \in S}

Idle == [op |-> "idle"]

\* the answers of one geometry: block_at and block_material_at at every point
\* and its bounding box
Sampled(op, args, block, material, box) ==
  [op |-> op, args |-> args, block |-> block, material |-> material, box |-> box]

TupleArities == 2..5       \* union.rs implements Union for tuples of 2 to 5

EvalUnionTuple ==
  /\ out = Idle
  /\ Len(kids) \in TupleArities
  /\ LET B == [pos \in Points |-> UnionTupleBlockAt(kids, pos)]
         M == [pos \in Points |-> UnionTupleBlockMaterialAt(kids, pos)]
     IN out' = Sampled("Union<tuple>", <<>>, B, M, UnionTupleBoundingBox(kids))
  /\ UNCHANGED <<kids, tuVars, gridVars, boxVars, cityVars, worldVars>>

EvalUnionArray ==
  /\ out = Idle
  /\ LET B == [pos \in Points |-> UnionArrayBlockAt(kids, pos)]
         M == [pos \in Points |-> UnionArrayBlockMaterialAt(kids, pos)]
     IN out' = Sampled("Union<array>", <<>>, B, M, UnionArrayBoundingBox(kids))
  /\ UNCHANGED <<kids, tuVars, gridVars, boxVars, cityVars, worldVars>>

EvalUnionVec ==
  /\ out = Idle
  /\ LET B == [pos \in Points |-> UnionVecBlockAt(kids, pos)]
         M == [pos \in Points |-> UnionVecBlockMaterialAt(kids, pos)]
     IN out' = Sampled("Union<Vec>", <<>>, B, M, UnionVecBoundingBox(kids))
  /\ UNCHANGED <<kids, tuVars, gridVars, boxVars, cityVars, worldVars>>

EvalUnifyTuple ==
  /\ out = Idle
  /\ Len(kids) >= 2
  /\ LET B == [pos \in Points |-> UnifyTupleBlockAt(kids, pos)]
         M == [pos \in Points |-> UnifyTupleBlockMaterialAt(kids, pos)]
     IN out' = Sampled("Unify<tuple>", <<>>, B, M, None)
  /\ UNCHANGED <<kids, tuVars, gridVars, boxVars, cityVars, worldVars>>

EvalUnifySlice ==
  /\ out = Idle
  /\ LET B == [pos \in Points |-> unify_block_at(kids, pos)]
         M == [pos \in Points |-> unify_block_material_at(kids, pos)]
     IN out' = Sampled("Unify<slice>", <<>>, B, M, None)
  /\ UNCHANGED <<kids, tuVars, gridVars, boxVars, cityVars, worldVars>>

EvalIntersect ==
  /\ out = Idle
  /\ Len(kids) = 2
  /\ LET B == [pos \in Points |-> IntersectBlockAt(kids[1], kids[2], pos)]
         M == [pos \in Points |-> IntersectBlockMaterialAt(kids[1], kids[2], pos)]
     IN out' = Sampled("Intersect", <<>>, B, M, Returned(IntersectBoundingBox(kids[1], kids[2])))
  /\ UNCHANGED <<kids, tuVars, gridVars, boxVars, cityVars, worldVars>>

EvalMask ==
  /\ out = Idle
  /\ Len(kids) = 2
  /\ LET B == [pos \in Points |-> MaskBlockAt(kids[1], kids[2], pos)]
         M == [pos \in Points |-> MaskBlockMaterialAt(kids[1], kids[2], pos)]
     IN out' = Sampled("Mask<G, M>", <<>>, B, M, None)
  /\ UNCHANGED <<kids, tuVars, gridVars, boxVars, cityVars, worldVars>>

EvalMaskBox2 ==
  /\ out = Idle
  /\ Len(kids) = 1
  /\ \E p1 \in Points2, p2 \in Points2 :
       LET mask == BoundingBox2New(p1, p2)
           B == [pos \in Points |-> MaskBox2BlockAt(kids[1], mask, pos)]
           M == [pos \in Points |-> MaskBox2BlockMaterialAt(kids[1], mask, pos)]
       IN out' = Sampled("Mask<G, BoundingBox2>", mask, B, M, None)
  /\ UNCHANGED <<kids, tuVars, gridVars, boxVars, cityVars, worldVars>>

EvalMaskBox3 ==
  /\ out = Idle
  /\ Len(kids) = 1
  /\ \E p1 \in Points, p2 \in Points :
       LET mask == BoundingBox3New(p1, p2)
           B == [pos \in Points |-> MaskBox3BlockAt(kids[1], mask, pos)]
           M == [pos \in Points |-> MaskBox3BlockMaterialAt(kids[1], mask, pos)]
       IN out' = Sampled("Mask<G, BoundingBox3>", mask, B, M, None)
  /\ UNCHANGED <<kids, tuVars, gridVars, boxVars, cityVars, worldVars>>

EvalLimitBounds ==
  /\ out = Idle
  /\ Len(kids) = 1
  /\ \E min \in Points2, max \in Points2 :
       LET lb == LimitBoundsNew(kids[1], min, max)
           B == [pos \in Points |-> LimitBoundsBlockAt(lb, pos)]
           M == [pos \in Points |-> LimitBoundsBlockMaterialAt(lb, pos)]
       IN out' = Sampled("LimitBounds", lb, B, M, Returned(LimitBoundsBoundingBox(lb)))
  /\ UNCHANGED <<kids, tuVars, gridVars, boxVars, cityVars, worldVars>>

\* the record of the last grid operation; lo and hi are the componentwise
\* minimum and maximum of the initial cell and the coordinates given to
\* put_expand so far
NoOp == [op |-> "new", n |-> 0, ret |-> None, lo |-> <<0, 0>>, hi |-> <<0, 0>>]

NoCall == [op |-> "idle", pc |-> "idle"]

NoCallers == [t \in 1..Callers |-> [pc |-> "idle"]]

TUIdle ==
  /\ tu_geoms = <<>>
  /\ tu_cache = None
  /\ tu_call = NoCall
  /\ tu_bb = NoCallers

GridIdle ==
  /\ g_rows = <<<<None>>>>
  /\ g_columns = 1
  /\ g_offset = <<0, 0>>
  /\ g_last = NoOp

GeomIdle ==
  /\ kids = <<>>
  /\ out = Idle

BoxIdle ==
  /\ bx_in = Idle
  /\ bx_out = Idle

CityIdle ==
  /\ ls_noise = Idle
  /\ ls = Idle
  /\ mp = Idle
  /\ pk = Idle

WorldIdle ==
  /\ city = Idle
  /\ sink = Idle

InitGeom ==
  /\ kids \in SeqsUpTo(Leaves, MaxKids)
  /\ out = Idle
  /\ TUIdle
  /\ GridIdle
  /\ BoxIdle
  /\ CityIdle
  /\ WorldIdle

NextGeom ==
  \/ EvalUnionTuple
  \/ EvalUnionArray
  \/ EvalUnionVec
  \/ EvalUnifyTuple
  \/ EvalUnifySlice
  \/ EvalIntersect
  \/ EvalMask
  \/ EvalMaskBox2
  \/ EvalMaskBox3
  \/ EvalLimitBounds

SpecGeom == InitGeom /\ [][NextGeom]_vars

(***************************************************************************)
(* UnionThreaded<Vec<G>> (src/src/generation/union_threaded.rs).           *)
(*                                                                         *)
(* tu_cache is the OnceCell.  A query (block_at, block_material_at) first  *)
(* calls bounding_box(), which fills the cell if it is empty, and then     *)
(* hands the children to the rayon workers: the workers evaluate the       *)
(* children in any order, tu_call.done is the set of children evaluated so *)
(* far.  The children are reached through Deref / DerefMut: a change needs *)
(* &mut self, so it happens only while no call is in flight.               *)
(***************************************************************************)
\* the two buildings a UnionThreaded is filled from
TULeaves ==
  { Materialize("minecraft:gray_concrete", BuildingNew(<<-1, -1>>, <<0, 0>>, 0, 1)),
    Materialize("minecraft:water", BuildingNew(<<0, 0>>, <<1, 1>>, 0, 2)) }

\* the closure given to get_or_init
UnionThreadedInitBox(geometries) == ReduceJoinUnwrap(ChildBoxes(geometries))

CallInFlight == tu_call.pc = "par"

CallerInFlight == \E t \in 1..Callers : tu_bb[t].pc \in {"get_or_init", "init"}

\* Vec::push through deref_mut
TUPush(g) ==
  /\ ~CallInFlight /\ ~CallerInFlight
  /\ Len(tu_geoms) < MaxGeoms
  /\ tu_geoms' = Append(tu_geoms, g)
  /\ tu_call' = NoCall
  /\ tu_bb' = NoCallers
  /\ UNCHANGED <<tu_cache, geomVars, gridVars, boxVars, cityVars, worldVars>>

\* Vec::retain keeps, in order, the elements the predicate accepts
RECURSIVE Retain(_, _)
Retain(geometries, dropped) ==
  IF Len(geometries) = 0 THEN <<>>
  ELSE IF geometries[1] \in dropped THEN Retain(Tail(geometries), dropped)
  ELSE <<geometries[1]>> \o Retain(Tail(geometries), dropped)

\* Layer::remove_buildings_colliding_with: self.buildings.retain(..) through
\* deref_mut; dropped are the buildings that collide with a pillar above
remove_buildings_colliding_with(dropped) ==
  /\ ~CallInFlight /\ ~CallerInFlight
  /\ \E i \in 1..Len(tu_geoms) : tu_geoms[i] \in dropped
  /\ tu_geoms' = Retain(tu_geoms, dropped)
  /\ tu_call' = NoCall
  /\ tu_bb' = NoCallers
  /\ UNCHANGED <<tu_cache, geomVars, gridVars, boxVars, cityVars, worldVars>>

\* self.bounding_box() inside a query: the value returned and the cell after it
CellGetOrInit == IF tu_cache # None THEN Returned(tu_cache[1]) ELSE UnionThreadedInitBox(tu_geoms)

CellAfter(bb) == IF tu_cache = None /\ bb # Panic THEN Some(bb[2]) ELSE tu_cache

\* the start of block_at / block_material_at up to the hand-over to rayon
TUEnter(op, pos, rejected) ==
  /\ ~CallInFlight /\ ~CallerInFlight
  /\ LET bb == CellGetOrInit
     IN /\ tu_cache' = CellAfter(bb)
        /\ tu_call' =
             IF bb = Panic
             THEN [op |-> op, pos |-> pos, pc |-> "done", done |-> {}, result |-> Panic]
             ELSE IF ~BoundingBoxContains(bb[2], pos)
             THEN [op |-> op, pos |-> pos, pc |-> "done", done |-> {}, result |-> Returned(rejected)]
             ELSE [op |-> op, pos |-> pos, pc |-> "par", done |-> {}, result |-> None]
  /\ tu_bb' = NoCallers
  /\ UNCHANGED <<tu_geoms, geomVars, gridVars, boxVars, cityVars, worldVars>>

TUBlockAt(pos) == TUEnter("block_at", pos, FALSE)

TUBlockMaterialAt(pos) == TUEnter("block_material_at", pos, None)

\* a rayon worker evaluates one more child
TUWorker(i) ==
  /\ tu_call.pc = "par"
  /\ i \in 1..Len(tu_geoms)
  /\ i \notin tu_call.done
  /\ tu_call' = [tu_call EXCEPT !.done = @ \cup {i}]
  /\ UNCHANGED <<tu_geoms, tu_cache, tu_bb, geomVars, gridVars, boxVars, cityVars, worldVars>>

AllChildren == 1..Len(tu_geoms)

\* par_iter().any(..): the children evaluated so far that hold the point
AnyHits == {i \in tu_call.done : LeafBlockAt(tu_geoms[i], tu_call.pos)}

\* any returns once some worker found a child, or all children were tried
TUReturnAny ==
  /\ tu_call.pc = "par"
  /\ tu_call.op = "block_at"
  /\ AnyHits # {} \/ tu_call.done = AllChildren
  /\ tu_call' = [tu_call EXCEPT !.pc = "done", !.result = Returned(AnyHits # {})]
  /\ UNCHANGED <<tu_geoms, tu_cache, tu_bb, geomVars, gridVars, boxVars, cityVars, worldVars>>

\* par_iter().find_map_first(..): the children evaluated so far with a material
FindHits == {i \in tu_call.done : LeafBlockMaterialAt(tu_geoms[i], tu_call.pos) # None}

\* find_map_first gives the match of the lowest index
FindMapFirstResult(hits) ==
  IF hits = {} THEN None
  ELSE LeafBlockMaterialAt(tu_geoms[Lowest(hits)], tu_call.pos)

\* find_map_first returns once every child before the lowest match was tried
TUReturnFindMapFirst ==
  /\ tu_call.pc = "par"
  /\ tu_call.op = "block_material_at"
  /\ \/ tu_call.done = AllChildren
     \/ FindHits # {} /\ \A j \in 1..(Lowest(FindHits) - 1) : j \in tu_call.done
  /\ tu_call' = [tu_call EXCEPT !.pc = "done", !.result = Returned(FindMapFirstResult(FindHits))]
  /\ UNCHANGED <<tu_geoms, tu_cache, tu_bb, geomVars, gridVars, boxVars, cityVars, worldVars>>

\* a thread calls bounding_box()
BBCall(t) ==
  /\ ~CallInFlight
  /\ tu_bb[t].pc = "idle"
  /\ tu_bb' = [tu_bb EXCEPT ![t] = [pc |-> "get_or_init"]]
  /\ tu_call' = NoCall
  /\ UNCHANGED <<tu_geoms, tu_cache, geomVars, gridVars, boxVars, cityVars, worldVars>>

\* get_or_init finds the cell empty: the thread runs the closure, the others wait
BBInit(t) ==
  /\ tu_bb[t].pc = "get_or_init"
  /\ tu_cache = None
  /\ \A u \in 1..Callers : tu_bb[u].pc # "init"
  /\ tu_bb' = [tu_bb EXCEPT ![t] = [pc |-> "init"]]
  /\ UNCHANGED <<tu_geoms, tu_cache, tu_call, geomVars, gridVars, boxVars, cityVars, worldVars>>

\* the closure ends: the cell is set and the value returned, or the unwrap panics
BBStore(t) ==
  /\ tu_bb[t].pc = "init"
  /\ LET bb == UnionThreadedInitBox(tu_geoms)
     IN /\ tu_cache' = IF bb = Panic THEN tu_cache ELSE Some(bb[2])
        /\ tu_bb' = [tu_bb EXCEPT ![t] = [pc |-> "returned", ret |-> bb]]
  /\ UNCHANGED <<tu_geoms, tu_call, geomVars, gridVars, boxVars, cityVars, worldVars>>

\* get_or_init finds the cell set: the cached value is returned
BBGet(t) ==
  /\ tu_bb[t].pc = "get_or_init"
  /\ tu_cache # None
  /\ tu_bb' = [tu_bb EXCEPT ![t] = [pc |-> "returned", ret |-> Returned(tu_cache[1])]]
  /\ UNCHANGED <<tu_geoms, tu_cache, tu_call, geomVars, gridVars, boxVars, cityVars, worldVars>>

InitTU ==
  /\ tu_geoms \in SeqsUpTo(TULeaves, MaxGeoms)
  /\ tu_cache = None
  /\ tu_call = NoCall
  /\ tu_bb = NoCallers
  /\ GeomIdle
  /\ GridIdle
  /\ BoxIdle
  /\ CityIdle
  /\ WorldIdle

NextTU ==
  \/ \E g \in TULeaves : TUPush(g)
  \/ \E dropped \in SUBSET TULeaves : remove_buildings_colliding_with(dropped)
  \/ \E pos \in Points : TUBlockAt(pos)
  \/ \E pos \in Points : TUBlockMaterialAt(pos)
  \/ \E i \in 1..MaxGeoms : TUWorker(i)
  \/ TUReturnAny
  \/ TUReturnFindMapFirst
  \/ \E t \in 1..Callers : BBCall(t)
  \/ \E t \in 1..Callers : BBInit(t)
  \/ \E t \in 1..Callers : BBStore(t)
  \/ \E t \in 1..Callers : BBGet(t)

SpecTU == InitTU /\ [][NextTU]_vars

(***************************************************************************)
(* Grid<T> (src/src/utility/grid.rs).  A grid is [rows, columns, offset]:  *)
(* rows is the VecDeque of rows (front first), each row a VecDeque of      *)
(* Option<T> of length columns.  Coordinates are far from the limits of    *)
(* isize, so the checked subtractions of pos and oob never overflow.       *)
(***************************************************************************)
GridCoord == -1..GridMax
GridPos == GridCoord \X GridCoord
GridValues == {15, -15}

\* isize::MIN and isize::MAX
ISizeMin == -(2 ^ (ISizeBits - 1))
ISizeMax == 2 ^ (ISizeBits - 1) - 1

\* coordinates at the ends of isize, and all the coordinates given to a call
GridFar == {<<ISizeMax, 0>>, <<ISizeMin, 0>>}
GridArgs == GridPos \cup GridFar

\* a.checked_sub(b) is None
checked_sub_overflows(a, b) == a - b < ISizeMin \/ a - b > ISizeMax

Grid(rows, columns, offset) == [rows |-> rows, columns |-> columns, offset |-> offset]

TheGrid == Grid(g_rows, g_columns, g_offset)

\* unit(): one row of one empty cell
unit == <<<<None>>>>

GridNew == Grid(unit, 1, <<0, 0>>)

\* Grid::with_offset
with_offset(offset) == Grid(unit, 1, offset)

\* the offsets a grid is created with: Grid::new() and one with_offset
GridOffsets == {<<0, 0>>, <<1, 1>>}

width(grid) == grid.columns

height(grid) == Len(grid.rows)

\* empty_row: for _ in 0..len { out.push(None) }
RECURSIVE empty_row(_)
empty_row(len) == IF len <= 0 THEN <<>> ELSE Append(empty_row(len - 1), None)

\* for row in self.rows.iter_mut() { row.push_back(None) }
RECURSIVE EachRowPushBack(_)
EachRowPushBack(rows) ==
  IF rows = <<>> THEN <<>>
  ELSE <<Append(Head(rows), None)>> \o EachRowPushBack(Tail(rows))

\* for row in self.rows.iter_mut() { row.push_front(None) }
RECURSIVE EachRowPushFront(_)
EachRowPushFront(rows) ==
  IF rows = <<>> THEN <<>>
  ELSE <<(<<None>> \o Head(rows))>> \o EachRowPushFront(Tail(rows))

\* deque[i] = v, at a 1-based index
ReplaceAt(deque, i, v) ==
  SubSeq(deque, 1, i - 1) \o <<v>> \o SubSeq(deque, i + 1, Len(deque))

\* Grid::pos and Grid::oob: .checked_sub(self.offset[..]).expect("integer overflow")
\* panics
pos_panics(grid, xy) ==
  \/ checked_sub_overflows(xy[1], grid.offset[1])
  \/ checked_sub_overflows(xy[2], grid.offset[2])

\* Grid::pos past the two subtractions: the index into the data (0-based as
\* in the code), or None
grid_pos(grid, xy) ==
  LET x == xy[1] - grid.offset[1]
      y == xy[2] - grid.offset[2]
  IN IF x < 0 \/ y < 0 THEN None
     ELSE IF x < width(grid) /\ y < height(grid) THEN Some(<<x, y>>)
     ELSE None

\* mutant: the distance past the last column / row is one too small
oob_OneShort(grid, xy) ==
  LET x == xy[1] - grid.offset[1]
      y == xy[2] - grid.offset[2]
  IN <<IF x < 0 THEN x ELSE IF x >= width(grid) THEN x - width(grid) ELSE 0,
       IF y < 0 THEN y ELSE IF y >= height(grid) THEN y - height(grid) ELSE 0>>

\* Grid::oob: how far out of bounds a position is
oob(grid, xy) ==
  LET x == xy[1] - grid.offset[1]
      y == xy[2] - grid.offset[2]
  IN <<IF x < 0 THEN x ELSE IF x >= width(grid) THEN x - width(grid) + 1 ELSE 0,
       IF y < 0 THEN y ELSE IF y >= height(grid) THEN y - height(grid) + 1 ELSE 0>>

GridMin(grid) == grid.offset

GridMax2(grid) == <<width(grid) + grid.offset[1] - 1, height(grid) + grid.offset[2] - 1>>

\* Grid::get: self.rows[y][x].as_ref()
get(grid, xy) ==
  LET at == grid_pos(grid, xy)
  IN IF at = None THEN None ELSE grid.rows[at[1][2] + 1][at[1][1] + 1]

push_rows_back(grid) ==
  Grid(Append(grid.rows, empty_row(width(grid))), grid.columns, grid.offset)

push_rows_front(grid) ==
  Grid(<<empty_row(width(grid))>> \o grid.rows, grid.columns,
       <<grid.offset[1], grid.offset[2] - 1>>)

push_columns_back(grid) ==
  Grid(EachRowPushBack(grid.rows), grid.columns + 1, grid.offset)

\* mutant: the offset is not moved when a column is added in front
push_columns_front_KeepOffset(grid) ==
  Grid(EachRowPushFront(grid.rows), grid.columns + 1, grid.offset)

push_columns_front(grid) ==
  Grid(EachRowPushFront(grid.rows), grid.columns + 1,
       <<grid.offset[1] - 1, grid.offset[2]>>)

\* for _ in 0..n { self.push_..() }
RECURSIVE PushColumnsBackTimes(_, _)
PushColumnsBackTimes(grid, n) ==
  IF n <= 0 THEN grid ELSE PushColumnsBackTimes(push_columns_back(grid), n - 1)

RECURSIVE PushColumnsFrontTimes(_, _)
PushColumnsFrontTimes(grid, n) ==
  IF n <= 0 THEN grid ELSE PushColumnsFrontTimes(push_columns_front(grid), n - 1)

RECURSIVE PushRowsBackTimes(_, _)
PushRowsBackTimes(grid, n) ==
  IF n <= 0 THEN grid ELSE PushRowsBackTimes(push_rows_back(grid), n - 1)

RECURSIVE PushRowsFrontTimes(_, _)
PushRowsFrontTimes(grid, n) ==
  IF n <= 0 THEN grid ELSE PushRowsFrontTimes(push_rows_front(grid), n - 1)

\* Grid::expand_to_include: first the columns, then the rows
expand_to_include(grid, xy) ==
  LET x_oob == oob(grid, xy)[1]
      y_oob == oob(grid, xy)[2]
      wide == IF x_oob = 0 THEN grid
              ELSE IF x_oob > 0 THEN PushColumnsBackTimes(grid, x_oob)
              ELSE PushColumnsFrontTimes(grid, -x_oob)
  IN IF y_oob = 0 THEN wide
     ELSE IF y_oob > 0 THEN PushRowsBackTimes(wide, y_oob)
     ELSE PushRowsFrontTimes(wide, -y_oob)

\* self.rows[y][x] = cell, at a 0-based index
SetCell(grid, at, cell) ==
  Grid(ReplaceAt(grid.rows, at[2] + 1, ReplaceAt(grid.rows[at[2] + 1], at[1] + 1, cell)),
       grid.columns, grid.offset)

\* Grid::expand_to_include panics: in oob, or at -x_oob / -y_oob when the
\* distance is isize::MIN (an overflow panic in a debug build; in a release
\* build the negation wraps, nothing is pushed and put_expand ends at its
\* unreachable!() arm)
expand_panics(grid, xy) ==
  \/ pos_panics(grid, xy)
  \/ oob(grid, xy)[1] = ISizeMin
  \/ oob(grid, xy)[2] = ISizeMin

\* Grid::put_expand: the grid after it, or Panic
put_expand(grid, xy, value) ==
  IF expand_panics(grid, xy) THEN Panic
  ELSE LET grown == expand_to_include(grid, xy)
           at == grid_pos(grown, xy)
       IN IF at = None THEN Panic ELSE Returned(SetCell(grown, at[1], Some(value)))

OpRecord(op, xy, value, ret) ==
  [op |-> op, n |-> g_last.n + 1, pos |-> xy, value |-> value, ret |-> ret,
   lo |-> IF op = "put_expand" /\ ret # Panic THEN IVec2Min(g_last.lo, xy) ELSE g_last.lo,
   hi |-> IF op = "put_expand" /\ ret # Panic THEN IVec2Max(g_last.hi, xy) ELSE g_last.hi]

\* an operation can be applied: the bound is not reached and no call has panicked
GridLive == g_last.n < MaxOps /\ g_last.ret # Panic

\* a call that panics in Grid::pos leaves the grid as it was
PosPanic(op, xy, value) ==
  /\ UNCHANGED <<g_rows, g_columns, g_offset>>
  /\ g_last' = OpRecord(op, xy, value, Panic)

GridIs(grid) ==
  /\ g_rows = grid.rows
  /\ g_columns = grid.columns
  /\ g_offset = grid.offset

GridBecomes(grid) ==
  /\ g_rows' = grid.rows
  /\ g_columns' = grid.columns
  /\ g_offset' = grid.offset

GPutExpand(xy, value) ==
  /\ GridLive
  /\ LET after == put_expand(TheGrid, xy, value)
     IN IF after = Panic
        THEN /\ UNCHANGED <<g_rows, g_columns, g_offset>>
             /\ g_last' = OpRecord("put_expand", xy, value, Panic)
        ELSE /\ GridBecomes(after[2])
             /\ g_last' = OpRecord("put_expand", xy, value, Returned(TRUE))
  /\ UNCHANGED <<geomVars, tuVars, boxVars, cityVars, worldVars>>

\* mutant: a put outside the window grows the grid as put_expand does
GPut_Expanding(xy, value) ==
  /\ GridLive
  /\ IF put_expand(TheGrid, xy, value) = Panic THEN PosPanic("put", xy, value)
     ELSE /\ GridBecomes(put_expand(TheGrid, xy, value)[2])
          /\ g_last' = OpRecord("put", xy, value, Returned(TRUE))
  /\ UNCHANGED <<geomVars, tuVars, boxVars, cityVars, worldVars>>

\* Grid::put: true and the cell written inside the window, false outside
GPut(xy, value) ==
  /\ GridLive
  /\ LET at == grid_pos(TheGrid, xy)
     IN IF pos_panics(TheGrid, xy) THEN PosPanic("put", xy, value)
        ELSE IF at # None
        THEN /\ GridBecomes(SetCell(TheGrid, at[1], Some(value)))
             /\ g_last' = OpRecord("put", xy, value, Returned(TRUE))
        ELSE /\ UNCHANGED <<g_rows, g_columns, g_offset>>
             /\ g_last' = OpRecord("put", xy, value, Returned(FALSE))
  /\ UNCHANGED <<geomVars, tuVars, boxVars, cityVars, worldVars>>

\* Grid::remove: std::mem::replace(&mut self.rows[y][x], None)
GRemove(xy) ==
  /\ GridLive
  /\ LET at == grid_pos(TheGrid, xy)
     IN IF pos_panics(TheGrid, xy) THEN PosPanic("remove", xy, 0)
        ELSE IF at # None
        THEN /\ GridBecomes(SetCell(TheGrid, at[1], None))
             /\ g_last' = OpRecord("remove", xy, 0, Returned(get(TheGrid, xy)))
        ELSE /\ UNCHANGED <<g_rows, g_columns, g_offset>>
             /\ g_last' = OpRecord("remove", xy, 0, Returned(None))
  /\ UNCHANGED <<geomVars, tuVars, boxVars, cityVars, worldVars>>

\* Grid::get: the grid is left as it is
GGet(xy) ==
  /\ GridLive
  /\ g_last' = OpRecord("get", xy, 0,
                        IF pos_panics(TheGrid, xy) THEN Panic
                        ELSE Returned(get(TheGrid, xy)))
  /\ UNCHANGED <<g_rows, g_columns, g_offset, geomVars, tuVars, boxVars, cityVars, worldVars>>

\* Grid::get_mut: self.rows[y][x].as_mut(), nothing is written through it
GGetMut(xy) ==
  /\ GridLive
  /\ LET at == grid_pos(TheGrid, xy)
     IN g_last' = OpRecord("get_mut", xy, 0,
                           IF pos_panics(TheGrid, xy) THEN Panic
                           ELSE Returned(IF at = None THEN None
                                         ELSE g_rows[at[1][2] + 1][at[1][1] + 1]))
  /\ UNCHANGED <<g_rows, g_columns, g_offset, geomVars, tuVars, boxVars, cityVars, worldVars>>

InitGrid ==
  /\ \E offset \in GridOffsets :
       /\ GridIs(with_offset(offset))
       /\ g_last = [NoOp EXCEPT !.lo = offset, !.hi = offset]
  /\ GeomIdle
  /\ TUIdle
  /\ BoxIdle
  /\ CityIdle
  /\ WorldIdle

NextGrid ==
  \/ \E xy \in GridPos, value \in GridValues : GPutExpand(xy, value)
  \/ \E xy \in GridArgs, value \in GridValues : GPut(xy, value)
  \/ \E xy \in GridArgs : GRemove(xy)
  \/ \E xy \in GridArgs : GGet(xy)
  \/ \E xy \in GridArgs : GGetMut(xy)

SpecGrid == InitGrid /\ [][NextGrid]_vars

(***************************************************************************)
(* BoundingBox2 / BoundingBox3 (kettenkrad/src/geometry.rs).  A BoundingBox2*)
(* is [min |-> <<x, y>>, max |-> <<x, y>>], a BoundingBox3 has <<x, y, z>>. *)
(***************************************************************************)
BoundingBox2Union(self, other) ==
  [min |-> IVec2Min(self.min, other.min), max |-> IVec2Max(self.max, other.max)]

\* mutant: the union keeps its own max
BoundingBox3Union_OwnMax(self, other) ==
  [min |-> IVec3Min(self.min, other.min), max |-> self.max]

BoundingBox3Union(self, other) ==
  [min |-> IVec3Min(self.min, other.min), max |-> IVec3Max(self.max, other.max)]

\* try_combine
try_combine2(a, b) ==
  IF a # None /\ b # None THEN Some(BoundingBox2Union(a[1], b[1]))
  ELSE IF a # None THEN a
  ELSE b

try_combine3(a, b) ==
  IF a # None /\ b # None THEN Some(BoundingBox3Union(a[1], b[1]))
  ELSE IF a # None THEN a
  ELSE b

\* mutant: only the first half of the test
axis_overlapping_OneSided(b1, b2, f) ==
  contains(b1.min[f], b2.min[f], b2.max[f])

\* axis_overlapping; f is the axis the closure picks
axis_overlapping(b1, b2, f) ==
  \/ contains(b1.min[f], b2.min[f], b2.max[f])
  \/ contains(b2.min[f], b1.min[f], b1.max[f])

BoundingBox2IntersectsWith(self, other) ==
  /\ axis_overlapping(self, other, 1)
  /\ axis_overlapping(self, other, 2)

BoundingBox3IntersectsWith(self, other) ==
  /\ axis_overlapping(self, other, 1)
  /\ axis_overlapping(self, other, 2)
  /\ axis_overlapping(self, other, 3)

BoundingBox2Intersect(self, other) ==
  IF BoundingBox2IntersectsWith(self, other)
  THEN Some([min |-> IVec2Max(self.min, other.min), max |-> IVec2Min(self.max, other.max)])
  ELSE None

BoundingBox3Intersect(self, other) ==
  IF BoundingBox3IntersectsWith(self, other)
  THEN Some([min |-> IVec3Max(self.min, other.min), max |-> IVec3Min(self.max, other.max)])
  ELSE None

\* Vec2::extend
extend(v, z) == <<v[1], v[2], z>>

BoundingBox2Extend(self, min, max) ==
  [min |-> extend(self.min, Min2(min, max)), max |-> extend(self.max, Max2(min, max))]

BoundingBox3Truncate(self) == [min |-> truncate(self.min), max |-> truncate(self.max)]

BoundingBox3Crop(self, bounding_box) ==
  LET cut == BoundingBox2Intersect(BoundingBox3Truncate(self), bounding_box)
  IN IF cut = None THEN None
     ELSE Some(BoundingBox2Extend(cut[1], self.min[3], self.max[3]))

(***************************************************************************)
(* SpecBox: two boxes of the same dimension are drawn, and each operation  *)
(* of BoundingBox2 / BoundingBox3 is applied to them.                      *)
(***************************************************************************)
BoxX == 0..MaxBox
BoxY == 0..1
BoxZ == 0..1
Vec2s == BoxX \X BoxY
Vec3s == BoxX \X BoxY \X BoxZ

\* the boxes BoundingBox2::new and BoundingBox3::new make of two corners
Boxes2 == {BoundingBox2New(p1, p2) : p1 \in Vec2s, p2 \in Vec2s}
Boxes3 == {BoundingBox3New(p1, p2) : p1 \in Vec3s, p2 \in Vec3s}

\* the operation of the dimension of the boxes drawn
BoxNew(dim, p1, p2) == IF dim = 2 THEN BoundingBox2New(p1, p2) ELSE BoundingBox3New(p1, p2)
BoxUnion(dim, a, b) == IF dim = 2 THEN BoundingBox2Union(a, b) ELSE BoundingBox3Union(a, b)
BoxTryUnion(dim, a, b) == IF dim = 2 THEN try_combine2(a, b) ELSE try_combine3(a, b)
BoxIntersect(dim, a, b) ==
  IF dim = 2 THEN BoundingBox2Intersect(a, b) ELSE BoundingBox3Intersect(a, b)
BoxIntersectsWith(dim, a, b) ==
  IF dim = 2 THEN BoundingBox2IntersectsWith(a, b) ELSE BoundingBox3IntersectsWith(a, b)
BoxContains(dim, b, pos) ==
  IF dim = 2 THEN BoundingBox2Contains(b, pos) ELSE BoundingBox3Contains(b, pos)

\* a.intersect(b) where a is itself the result of an intersect: an absent a
\* makes the result absent
AndThenIntersect(dim, a, b) == IF a = None THEN None ELSE BoxIntersect(dim, a[1], b)

BoxApplied(op, ret) == [op |-> op, ret |-> ret]

\* BoundingBox::new of two corners in any order
EvalBoxNew ==
  /\ bx_out = Idle
  /\ LET p1 == bx_in.a.max
         p2 == bx_in.b.min
     IN bx_out' = [op |-> "new", p1 |-> p1, p2 |-> p2, ret |-> BoxNew(bx_in.dim, p1, p2)]
  /\ UNCHANGED <<bx_in, geomVars, tuVars, gridVars, cityVars, worldVars>>

EvalBoxUnion ==
  /\ bx_out = Idle
  /\ bx_out' = [op |-> "union",
                ab |-> BoxUnion(bx_in.dim, bx_in.a, bx_in.b),
                ba |-> BoxUnion(bx_in.dim, bx_in.b, bx_in.a)]
  /\ UNCHANGED <<bx_in, geomVars, tuVars, gridVars, cityVars, worldVars>>

EvalBoxTryUnion ==
  /\ bx_out = Idle
  /\ \E a \in {None, Some(bx_in.a)}, b \in {None, Some(bx_in.b)} :
       bx_out' = [op |-> "try_union", a |-> a, b |-> b,
                  ret |-> BoxTryUnion(bx_in.dim, a, b)]
  /\ UNCHANGED <<bx_in, geomVars, tuVars, gridVars, cityVars, worldVars>>

EvalBoxIntersect ==
  /\ bx_out = Idle
  /\ bx_out' = [op |-> "intersect",
                ab |-> BoxIntersect(bx_in.dim, bx_in.a, bx_in.b),
                ba |-> BoxIntersect(bx_in.dim, bx_in.b, bx_in.a),
                aa |-> BoxIntersect(bx_in.dim, bx_in.a, bx_in.a)]
  /\ UNCHANGED <<bx_in, geomVars, tuVars, gridVars, cityVars, worldVars>>

EvalBoxIntersectsWith ==
  /\ bx_out = Idle
  /\ bx_out' = [op |-> "intersects_with",
                ab |-> BoxIntersectsWith(bx_in.dim, bx_in.a, bx_in.b),
                ba |-> BoxIntersectsWith(bx_in.dim, bx_in.b, bx_in.a)]
  /\ UNCHANGED <<bx_in, geomVars, tuVars, gridVars, cityVars, worldVars>>

\* BoundingBox2::extend, with the two heights in any order
EvalBoxExtend ==
  /\ bx_out = Idle
  /\ bx_in.dim = 2
  /\ \E min \in BoxZ, max \in BoxZ :
       bx_out' = [op |-> "extend", min |-> min, max |-> max,
                  ret |-> BoundingBox2Extend(bx_in.a, min, max)]
  /\ UNCHANGED <<bx_in, geomVars, tuVars, gridVars, cityVars, worldVars>>

EvalBoxTruncate ==
  /\ bx_out = Idle
  /\ bx_in.dim = 3
  /\ bx_out' = BoxApplied("truncate", BoundingBox3Truncate(bx_in.a))
  /\ UNCHANGED <<bx_in, geomVars, tuVars, gridVars, cityVars, worldVars>>

\* BoundingBox3::crop of a by the rectangle under b
EvalBoxCrop ==
  /\ bx_out = Idle
  /\ bx_in.dim = 3
  /\ bx_out' = BoxApplied("crop", BoundingBox3Crop(bx_in.a, BoundingBox3Truncate(bx_in.b)))
  /\ UNCHANGED <<bx_in, geomVars, tuVars, gridVars, cityVars, worldVars>>

\* union and intersect of three boxes, grouped to the left and to the right
EvalBoxThree ==
  /\ bx_out = Idle
  /\ \E c \in (IF bx_in.dim = 2 THEN Boxes2 ELSE Boxes3) :
       LET dim == bx_in.dim
           a == bx_in.a
           b == bx_in.b
       IN bx_out' =
            [op |-> "three", c |-> c,
             union_left |-> BoxUnion(dim, BoxUnion(dim, a, b), c),
             union_right |-> BoxUnion(dim, a, BoxUnion(dim, b, c)),
             intersect_left |-> AndThenIntersect(dim, BoxIntersect(dim, a, b), c),
             intersect_right |->
               LET bc == BoxIntersect(dim, b, c)
               IN IF bc = None THEN None ELSE BoxIntersect(dim, a, bc[1])]
  /\ UNCHANGED <<bx_in, geomVars, tuVars, gridVars, cityVars, worldVars>>

InitBox ==
  /\ \/ \E a \in Boxes2, b \in Boxes2 : bx_in = [dim |-> 2, a |-> a, b |-> b]
     \/ \E a \in Boxes3, b \in Boxes3 : bx_in = [dim |-> 3, a |-> a, b |-> b]
  /\ bx_out = Idle
  /\ GeomIdle
  /\ TUIdle
  /\ GridIdle
  /\ CityIdle
  /\ WorldIdle

NextBox ==
  \/ EvalBoxNew
  \/ EvalBoxUnion
  \/ EvalBoxTryUnion
  \/ EvalBoxIntersect
  \/ EvalBoxIntersectsWith
  \/ EvalBoxExtend
  \/ EvalBoxTruncate
  \/ EvalBoxCrop
  \/ EvalBoxThree

SpecBox == InitBox /\ [][NextBox]_vars

(***************************************************************************)
(* The landmass shape (src/src/generation/city/landmass_shape.rs, and the  *)
(* earlier src/src/generation/city/landmass.rs).  A cell is <<x, y>>.  The *)
(* noise field is the set of the cells where its value is positive.  The   *)
(* grid of discover is a function over World: "None" where SparseGrid has  *)
(* no cell, else "Present", "Boundary" or "BoundaryFinal"; idx carries the *)
(* index of a BoundaryFinal cell.                                          *)
(***************************************************************************)
Origin == <<0, 0>>     \* IVec2::ZERO

\* the seeds: positive cells with x in 0..size and y in -1..1
SeedRegion(size) == (0..size) \X (-1..1)

\* a field with a hole wide enough to hold a cell that no fill of the
\* interior samples: a ring of positive cells through the origin around the
\* cells (1,0), (2,0), (3,0), (2,1), (2,-1)
HoleField ==
  {<<0, 0>>, <<0, 1>>, <<1, 1>>, <<1, 2>>, <<2, 2>>, <<3, 2>>, <<3, 1>>, <<4, 1>>,
   <<4, 0>>, <<4, -1>>, <<3, -1>>, <<3, -2>>, <<2, -2>>, <<1, -2>>, <<1, -1>>, <<0, -1>>}

\* the least size that leaves HoleField whole
HoleSize == CHOOSE n \in 0..Cardinality(HoleField) :
              /\ \A c \in HoleField : c[1] <= n /\ -c[1] <= n /\ c[2] <= n /\ -c[2] <= n
              /\ \E c \in HoleField : n \in {c[1], -c[1], c[2], -c[2]}

\* the cells a run can reach: one ring past the boundary of the largest field
WorldMaxX == Max2(MaxSize, HoleSize) + 2

WorldMaxY == HoleSize

WorldWidth == WorldMaxX + 3

World == (-2..WorldMaxX) \X (-WorldMaxY..WorldMaxY)

Abs(n) == IF n < 0 THEN -n ELSE n

\* pos.abs().max_element()
max_element_abs(pos) == Max2(Abs(pos[1]), Abs(pos[2]))

\* landmass_generator: the field falls below zero past size
landmass_generator(seed, size) == {c \in seed : max_element_abs(c) <= size}

cardinal4(c) ==
  <<<<c[1] + 1, c[2]>>, <<c[1], c[2] + 1>>, <<c[1] - 1, c[2]>>, <<c[1], c[2] - 1>>>>

cardinal8(c) ==
  <<<<c[1] + 1, c[2]>>, <<c[1] + 1, c[2] + 1>>, <<c[1], c[2] + 1>>, <<c[1] - 1, c[2] + 1>>,
    <<c[1] - 1, c[2]>>, <<c[1] - 1, c[2] - 1>>, <<c[1], c[2] - 1>>, <<c[1] + 1, c[2] - 1>>>>

\* VecDeque::contains
InSeq(q, c) == \E i \in 1..Len(q) : q[i] = c

\* SparseGrid::get
grid_get(grid, c) == IF c \in World THEN grid[c] ELSE "None"

\* boundary_at
boundary_at(grid, c) == grid_get(grid, c) = "Boundary"

\* mutant: a candidate is pushed back even when the queue holds it
RECURSIVE PushUnknown_NoQueueCheck(_, _, _)
PushUnknown_NoQueueCheck(q, grid, candidates) ==
  IF candidates = <<>> THEN q
  ELSE LET c == Head(candidates)
       IN PushUnknown_NoQueueCheck(IF c \in World /\ grid[c] = "None" THEN Append(q, c) ELSE q,
                                   grid, Tail(candidates))

\* the loop over cardinal4 of the interior fill and of the hole fill: a
\* candidate that is not in the grid and not in the queue is pushed back
RECURSIVE PushUnknown(_, _, _)
PushUnknown(q, grid, candidates) ==
  IF candidates = <<>> THEN q
  ELSE LET c == Head(candidates)
       IN PushUnknown(IF c \in World /\ grid[c] = "None" /\ ~InSeq(q, c) THEN Append(q, c) ELSE q,
                      grid, Tail(candidates))

\* mutant: the walk follows the four straight neighbours only (the diagonal
\* candidates are the even ones of cardinal8)
RECURSIVE PushBoundary_Cardinal4(_, _, _, _)
PushBoundary_Cardinal4(q, grid, candidates, index) ==
  IF candidates = <<>> THEN q
  ELSE LET c == Head(candidates)
       IN IF Len(candidates) % 2 = 0 /\ boundary_at(grid, c) /\ ~InSeq(q, c)
          THEN IF index = 0 THEN Append(q, c)
               ELSE PushBoundary_Cardinal4(Append(q, c), grid, Tail(candidates), index)
          ELSE PushBoundary_Cardinal4(q, grid, Tail(candidates), index)

\* the loop over cardinal4 of the hole fill: a candidate with
\* grid.get(candidate) == None that is not in the queue is pushed back
HolePush(q, grid, candidates) ==
  PushUnknown(q, grid, candidates)

\* mutant: a Boundary candidate is pushed back even when the queue holds it
RECURSIVE PushBoundary_NoQueueCheck(_, _, _, _)
PushBoundary_NoQueueCheck(q, grid, candidates, index) ==
  IF candidates = <<>> THEN q
  ELSE LET c == Head(candidates)
       IN IF boundary_at(grid, c)
          THEN IF index = 0 THEN Append(q, c)
               ELSE PushBoundary_NoQueueCheck(Append(q, c), grid, Tail(candidates), index)
          ELSE PushBoundary_NoQueueCheck(q, grid, Tail(candidates), index)

\* the loop over cardinal8 of the outer walk: a Boundary candidate that is not
\* in the queue is pushed back; at index 0 the loop breaks after its first push
RECURSIVE PushBoundary(_, _, _, _)
PushBoundary(q, grid, candidates, index) ==
  IF candidates = <<>> THEN q
  ELSE LET c == Head(candidates)
       IN IF boundary_at(grid, c) /\ ~InSeq(q, c)
          THEN IF index = 0 THEN Append(q, c)
               ELSE PushBoundary(Append(q, c), grid, Tail(candidates), index)
          ELSE PushBoundary(q, grid, Tail(candidates), index)

\* the loop over CARDINAL8 of landmass.rs: no break
RECURSIVE PushEdge(_, _, _)
PushEdge(q, grid, candidates) ==
  IF candidates = <<>> THEN q
  ELSE LET c == Head(candidates)
       IN PushEdge(IF boundary_at(grid, c) /\ ~InSeq(q, c) THEN Append(q, c) ELSE q,
                   grid, Tail(candidates))

\* a candidate of the hole fill lies past the cells the model holds
Escapes(q, grid, candidates) ==
  \E i \in 1..Len(candidates) : candidates[i] \notin World

\* SparseGrid::cells: the cells of the window in the order of the rows, x
\* running fastest
WorldInRows ==
  [i \in 1..(WorldWidth * (2 * WorldMaxY + 1)) |->
     <<((i - 1) % WorldWidth) - 2, ((i - 1) \div WorldWidth) - WorldMaxY>>]

cells(grid) == SelectSeq(WorldInRows, LAMBDA c : grid[c] # "None")

\* mutant: only the first Boundary cell is kept
OnlyBoundary_First(grid, seq) ==
  LET all == SelectSeq(seq, LAMBDA c : grid[c] = "Boundary")
  IN IF all = <<>> THEN all ELSE <<Head(all)>>

\* .filter_map(Boundary => Some(pos)): the Boundary cells, in the order given
OnlyBoundary(grid, seq) == SelectSeq(seq, LAMBDA c : grid[c] = "Boundary")

\* mutant: of the cells that share the largest key, the second run takes the first
max_by_key_FirstOnRerun(seq) ==
  LET i == CHOOSE k \in 1..Len(seq) :
             /\ \A j \in 1..Len(seq) : max_element_abs(seq[j]) <= max_element_abs(seq[k])
             /\ IF ls.run = 1
                THEN \A j \in (k + 1)..Len(seq) : max_element_abs(seq[j]) < max_element_abs(seq[k])
                ELSE \A j \in 1..(k - 1) : max_element_abs(seq[j]) < max_element_abs(seq[k])
  IN seq[i]

\* Iterator::max_by_key over the key pos.abs().max_element(): of several
\* cells with the largest key the last one is returned
max_by_key(seq) ==
  LET i == CHOOSE k \in 1..Len(seq) :
             /\ \A j \in 1..Len(seq) : max_element_abs(seq[j]) <= max_element_abs(seq[k])
             /\ \A j \in (k + 1)..Len(seq) : max_element_abs(seq[j]) < max_element_abs(seq[k])
  IN seq[i]

\* .partition(|pos| boundary_at(&grid, pos)): the half that is not Boundary
NotBoundary(grid, seq) == SelectSeq(seq, LAMBDA c : grid[c] # "Boundary")

\* floor of the square root
ISqrt(n) == CHOOSE r \in 0..n : r * r <= n /\ (r + 1) * (r + 1) > n

DistSquared(a, b) == (a[1] - b[1]) * (a[1] - b[1]) + (a[2] - b[2]) * (a[2] - b[2])

\* the distance half of get_ordering_and_dist: the least distance to an outer
\* edge, floored
edge_distance(outer_edges, pos) ==
  LET least == CHOOSE d \in {DistSquared(outer_edges[i], pos) : i \in 1..Len(outer_edges)} :
                 \A i \in 1..Len(outer_edges) : d <= DistSquared(outer_edges[i], pos)
  IN ISqrt(least)

\* LandmassCell::new.  The ordering is kept as the terms it is computed from:
\* <<index, len>> for get_ordering_from_index(index, len), and <<-1, len>> for
\* the angle get_ordering_and_dist derives from the outer edges and the place
\* of the cell
LandmassCell(ordering, distance, edge) ==
  [ordering |-> ordering, edge_distance |-> distance, edge |-> edge]

\* the final pass of discover in landmass_shape.rs
DeriveCells(grid, idx, outer_edges) ==
  [c \in {w \in World : grid[w] # "None"} |->
     IF grid[c] = "Present"
     THEN LandmassCell(<<-1, Len(outer_edges)>>, edge_distance(outer_edges, c), FALSE)
     ELSE LandmassCell(<<idx[c], Len(outer_edges)>>, 0, TRUE)]

\* the final pass of discover in landmass.rs: LandmassBlock { edge }
DeriveBlocks(grid) ==
  [c \in {w \in World : grid[w] # "None"} |-> [edge |-> grid[c] # "Present"]]

\* noise.get(pos) is kept by its sign: above zero at the cells of `noise`,
\* +0.0 at the cells of `zeros`, below zero elsewhere.
\* value > 0.0 (landmass_shape.rs)
greater_than_zero(noise, pos) == pos \in noise

\* value.is_sign_positive() (landmass.rs): true of +0.0 too
is_sign_positive(noise, zeros, pos) == pos \in noise \/ pos \in zeros

\* discover has just been called: the queue holds the origin
NewRun(variant, run, size, first) ==
  [phase |-> "fill", variant |-> variant, run |-> run, size |-> size,
   noise |-> landmass_generator(ls_noise.seed, size),
   zeros |-> ls_noise.zeros,
   q |-> <<Origin>>,
   grid |-> [c \in World |-> "None"],
   idx |-> [c \in World |-> 0],
   sampled |-> <<>>,
   all_edges |-> <<>>, outer_edges |-> <<>>, root |-> None, index |-> 0,
   trace |-> <<>>, escaped |-> FALSE, panic |-> "", result |-> None,
   first |-> first]

\* LandmassShape::generate_new -> generate_landmass_shape of landmass_shape.rs
GenerateNew ==
  /\ ls_noise # Idle
  /\ ls = Idle
  /\ IF ls_noise.size >= 1
     THEN ls' = NewRun("landmass_shape.rs", 1, ls_noise.size, None)
     ELSE ls' = [NewRun("landmass_shape.rs", 1, ls_noise.size, None) EXCEPT
                   !.phase = "panicked", !.q = <<>>,
                   !.panic = "landmass size may not be less than 1"]
  /\ UNCHANGED <<ls_noise, mp, pk, geomVars, tuVars, gridVars, boxVars, worldVars>>

\* Landmass::new -> LandmassShape::new -> generate_landmass_shape of landmass.rs
LandmassNew ==
  /\ ls_noise # Idle
  /\ ls = Idle
  /\ ls' = NewRun("landmass.rs", 1, Max2(ls_noise.size, 1), None)
  /\ UNCHANGED <<ls_noise, mp, pk, geomVars, tuVars, gridVars, boxVars, worldVars>>

\* one turn of the interior flood fill
FillStep ==
  /\ ls # Idle
  /\ ls.phase = "fill"
  /\ ls.q # <<>>
  /\ LET pos == Head(ls.q)
         positive == IF ls.variant = "landmass.rs"
                     THEN is_sign_positive(ls.noise, ls.zeros, pos)
                     ELSE greater_than_zero(ls.noise, pos)
         grid == [ls.grid EXCEPT ![pos] = IF positive THEN "Present" ELSE "Boundary"]
         q == IF positive THEN PushUnknown(Tail(ls.q), grid, cardinal4(pos)) ELSE Tail(ls.q)
     IN ls' = [ls EXCEPT !.grid = grid, !.q = q,
                         !.sampled = Append(ls.sampled, pos),
                         !.trace = Append(ls.trace, q)]
  /\ UNCHANGED <<ls_noise, mp, pk, geomVars, tuVars, gridVars, boxVars, worldVars>>

\* the search for the most distant Boundary cell, which collects all of them
RootSelect ==
  /\ ls # Idle
  /\ ls.phase = "fill"
  /\ ls.q = <<>>
  /\ LET all_edges == OnlyBoundary(ls.grid, cells(ls.grid))
     IN IF all_edges = <<>>
        THEN ls' = [ls EXCEPT !.phase = "panicked", !.panic = "unreachable"]
        ELSE LET outer_edge_root == max_by_key(all_edges)
             IN ls' = [ls EXCEPT !.phase = "walk", !.all_edges = all_edges,
                                 !.root = Some(outer_edge_root),
                                 !.q = <<outer_edge_root>>, !.index = 0]
  /\ UNCHANGED <<ls_noise, mp, pk, geomVars, tuVars, gridVars, boxVars, worldVars>>

\* one turn of the walk along the outer edge
WalkStep ==
  /\ ls # Idle
  /\ ls.phase = "walk"
  /\ ls.q # <<>>
  /\ LET pos == Head(ls.q)
         grid == [ls.grid EXCEPT ![pos] = "BoundaryFinal"]
         q == IF ls.variant = "landmass.rs"
              THEN PushEdge(Tail(ls.q), grid, cardinal8(pos))
              ELSE PushBoundary(Tail(ls.q), grid, cardinal8(pos), ls.index)
     IN ls' = [ls EXCEPT !.grid = grid, !.idx = [ls.idx EXCEPT ![pos] = ls.index],
                         !.q = q, !.index = ls.index + 1,
                         !.trace = Append(ls.trace, q)]
  /\ UNCHANGED <<ls_noise, mp, pk, geomVars, tuVars, gridVars, boxVars, worldVars>>

\* the edges the walk has not reached start the hole fill
HolesStart ==
  /\ ls # Idle
  /\ ls.phase = "walk"
  /\ ls.q = <<>>
  /\ ls' = [ls EXCEPT !.phase = "holes",
                      !.q = OnlyBoundary(ls.grid, ls.all_edges),
                      !.outer_edges = NotBoundary(ls.grid, ls.all_edges)]
  /\ UNCHANGED <<ls_noise, mp, pk, geomVars, tuVars, gridVars, boxVars, worldVars>>

\* one turn of the hole fill
HolesStep ==
  /\ ls # Idle
  /\ ls.phase = "holes"
  /\ ls.q # <<>>
  /\ LET pos == Head(ls.q)
         grid == [ls.grid EXCEPT ![pos] = "Present"]
         q == HolePush(Tail(ls.q), grid, cardinal4(pos))
     IN ls' = [ls EXCEPT !.grid = grid, !.q = q,
                         !.escaped = ls.escaped \/ Escapes(q, grid, cardinal4(pos)),
                         !.trace = Append(ls.trace, q)]
  /\ UNCHANGED <<ls_noise, mp, pk, geomVars, tuVars, gridVars, boxVars, worldVars>>

\* the final pass: every cell of the grid becomes a LandmassCell
Derive ==
  /\ ls # Idle
  /\ ls.phase = "holes"
  /\ ls.q = <<>>
  /\ IF ls.variant = "landmass.rs"
     THEN ls' = [ls EXCEPT !.phase = "done", !.result = Some(DeriveBlocks(ls.grid))]
     ELSE IF \/ \E i \in 1..Len(ls.outer_edges) : ls.grid[ls.outer_edges[i]] # "BoundaryFinal"
             \/ \E c \in World : ls.grid[c] = "Boundary"
          THEN ls' = [ls EXCEPT !.phase = "panicked", !.panic = "unreachable"]
          ELSE ls' = [ls EXCEPT !.phase = "done",
                                !.result = Some(DeriveCells(ls.grid, ls.idx, ls.outer_edges))]
  /\ UNCHANGED <<ls_noise, mp, pk, geomVars, tuVars, gridVars, boxVars, worldVars>>

\* the same entry point is called again with the same seed and size
RunAgain ==
  /\ ls # Idle
  /\ ls.phase = "done"
  /\ ls.run = 1
  /\ ls' = NewRun(ls.variant, 2, ls.size,
                  Some([trace |-> ls.trace, sampled |-> ls.sampled, root |-> ls.root,
                        grid |-> ls.grid, idx |-> ls.idx, result |-> ls.result]))
  /\ UNCHANGED <<ls_noise, mp, pk, geomVars, tuVars, gridVars, boxVars, worldVars>>

\* the fields: a size, a seed whose positive cells are joined to the origin or
\* which has one more positive cell apart from them on the x axis, and at most
\* one cell of the x axis, beside the positive cells or at the origin, where
\* the sample is +0.0
RECURSIVE Joined(_, _)
Joined(seed, reached) ==
  LET more == {c \in seed : \E r \in reached : \E i \in 1..4 : cardinal4(r)[i] = c}
  IN IF more \subseteq reached THEN reached ELSE Joined(seed, reached \cup more)

JoinedSeeds(size) ==
  {seed \in SUBSET SeedRegion(Max2(size, 1)) :
     seed = {} \/ (Origin \in seed /\ Joined(seed, {Origin}) = seed)}

Beside(seed) ==
  {c \in World : c \notin seed /\ \E i \in 1..4 : cardinal4(c)[i] \in seed \cup {Origin}}

Seeds(size) ==
  JoinedSeeds(size)
    \cup UNION {{seed \cup {c} :
                   c \in {b \in SeedRegion(Max2(size, 1)) \ (seed \cup Beside(seed) \cup {Origin}) :
                            b[2] = 0}} :
                seed \in JoinedSeeds(size)}

Zeros(size, seed) ==
  {{}} \cup {{c} : c \in {b \in ((Beside(seed) \cup {Origin}) \ seed) \cap SeedRegion(Max2(size, 1)) :
                           b[2] = 0}}

InitShape ==
  /\ \/ \E size \in 0..MaxSize : \E seed \in Seeds(size) : \E zeros \in Zeros(size, seed) :
          ls_noise = [size |-> size, seed |-> seed, zeros |-> zeros]
     \/ ls_noise = [size |-> HoleSize, seed |-> HoleField, zeros |-> {}]
  /\ ls = Idle
  /\ mp = Idle
  /\ pk = Idle
  /\ GeomIdle
  /\ TUIdle
  /\ GridIdle
  /\ BoxIdle
  /\ WorldIdle

NextShape ==
  \/ GenerateNew
  \/ LandmassNew
  \/ FillStep
  \/ RootSelect
  \/ WalkStep
  \/ HolesStart
  \/ HolesStep
  \/ Derive
  \/ RunAgain

SpecShape == InitShape /\ [][NextShape]_vars

(***************************************************************************)
(* Pillar mount points: generate_mount_points of landmass_shape.rs.  The   *)
(* cell grid is a row of MaxCells positions; a cell is absent or holds an  *)
(* edge_distance and an ordering.  The ordering of a cell comes from one   *)
(* of three schemes, so that the sort reverses the order of cells() or     *)
(* meets equal keys.                                                       *)
(***************************************************************************)
MaxCells == 5
MaxDist == 1
MaxSpacing == 3

MountCells == 1..MaxCells

Absent == [edge_distance |-> -1, ordering |-> -1]

OrderingSchemes == {"ascending", "descending", "paired"}

OrderingOf(scheme, x) ==
  CASE scheme = "ascending" -> x
    [] scheme = "descending" -> MaxCells - x
    [] OTHER -> x \div 2

\* The grids of the model: every choice of absent cells and edge distances.
MountGrids ==
  {[x \in MountCells |->
      IF dist[x] = -1 THEN Absent
      ELSE [edge_distance |-> dist[x], ordering |-> OrderingOf(scheme, x)]] :
     dist \in [MountCells -> -1..MaxDist], scheme \in OrderingSchemes}

\* .filter(|&(_, value)| value.edge_distance == distance)
at_distance_Within(value, distance) ==
  value # Absent /\ value.edge_distance <= distance

at_distance(value, distance) ==
  value # Absent /\ value.edge_distance = distance

\* grid.cells().filter(..).map(|(pos, value)| (pos, value.ordering)).collect()
\* The positions are <<x, 0>>; cells() gives them by rising x.
MountCandidates(grid, distance) ==
  LET all == [x \in MountCells |-> <<x, grid[x].ordering>>]
      keep(e) == at_distance(grid[e[1]], distance)
  IN SelectSeq(all, keep)

\* let mount_point_count = points.len() / spacing;
mount_point_count(n, spacing) == n \div spacing

\* let adjusted_spacing = points.len() as f32 / mount_point_count as f32;
\* a float division: n / 0 is +infinity for n > 0 and NaN for n = 0.  A
\* quotient that f32 cannot hold is rounded; `round` says which way ("up"
\* stands for a stride a little above n / count; a stride a little below
\* picks as the exact one does for the indexes below n).
adjusted_spacing(n, count, round) ==
  IF count = 0
  THEN [kind |-> IF n = 0 THEN "nan" ELSE "inf", num |-> n, den |-> 0, round |-> "exact"]
  ELSE [kind |-> "ratio", num |-> n, den |-> count,
        round |-> IF n % count = 0 THEN "exact" ELSE round]

\* (i as f32 % adjusted_spacing).floor() as usize == 0
\* i % NaN is NaN and NaN as usize is 0; i % infinity is i; otherwise the
\* remainder of i by num / den is below 1 exactly when (i * den) % num < den.
StrideHit(i, a) ==
  CASE a.kind = "nan" -> TRUE
    [] a.kind = "inf" -> i = 0
    [] a.round = "exact" -> (i * a.den) % a.num < a.den
    [] OTHER ->
         \/ i = 0
         \/ /\ (i * a.den) \div a.num >= 1
            /\ (i * a.den) % a.num > 0
            /\ (i * a.den) % a.num <= a.den

\* The orders sort_unstable_by_key may leave: the keys rise, equal keys in
\* any order.
SortedByOrdering(points) ==
  {s \in [1..Len(points) -> {points[k] : k \in 1..Len(points)}] :
     /\ \A e \in {points[k] : k \in 1..Len(points)} : \E k \in 1..Len(s) : s[k] = e
     /\ \A j, k \in 1..Len(s) : j < k => s[j][2] <= s[k][2]}

MountInputs ==
  {[grid |-> g, distance |-> d, spacing |-> s] :
     g \in MountGrids, d \in 0..MaxDist, s \in 1..MaxSpacing}

\* The filter, the count, the stride and the sort (252-258).
MountCollect ==
  /\ mp.phase = "called"
  /\ LET points == MountCandidates(mp.grid, mp.distance)
         count == mount_point_count(Len(points), mp.spacing)
     IN \E sorted \in SortedByOrdering(points), round \in {"exact", "up"} :
          mp' = [mp EXCEPT !.phase = "picking",
                           !.n = Len(points),
                           !.count = count,
                           !.adjusted = adjusted_spacing(Len(points), count, round),
                           !.points = sorted]
  /\ UNCHANGED <<ls_noise, ls, pk, geomVars, tuVars, gridVars, boxVars, worldVars>>

\* One element of points.into_iter().enumerate().filter_map(..) (259-263).
MountPick ==
  /\ mp.phase = "picking"
  /\ mp.i < Len(mp.points)
  /\ mp' = [mp EXCEPT !.i = mp.i + 1,
                      !.picked = IF StrideHit(mp.i, mp.adjusted)
                                 THEN Append(mp.picked, <<mp.points[mp.i + 1][1], 0>>)
                                 ELSE mp.picked]
  /\ UNCHANGED <<ls_noise, ls, pk, geomVars, tuVars, gridVars, boxVars, worldVars>>

\* .collect(): the iterator is exhausted and the vector is returned (264).
MountReturn ==
  /\ mp.phase = "picking"
  /\ mp.i = Len(mp.points)
  /\ mp' = [mp EXCEPT !.phase = "returned"]
  /\ UNCHANGED <<ls_noise, ls, pk, geomVars, tuVars, gridVars, boxVars, worldVars>>

InitMount ==
  /\ \E input \in MountInputs :
       mp = [phase |-> "called", grid |-> input.grid, distance |-> input.distance,
             spacing |-> input.spacing, n |-> 0, count |-> 0,
             adjusted |-> adjusted_spacing(0, 0, "exact"),
             points |-> <<>>, i |-> 0, picked |-> <<>>]
  /\ ls_noise = Idle
  /\ ls = Idle
  /\ pk = Idle
  /\ GeomIdle
  /\ TUIdle
  /\ GridIdle
  /\ BoxIdle
  /\ WorldIdle

NextMount ==
  \/ MountCollect
  \/ MountPick
  \/ MountReturn

SpecMount == InitMount /\ [][NextMount]_vars

(***************************************************************************)
(* Building packing: generate_building_shapes of landmass_shape.rs.  The   *)
(* working grid has one cell for every landmass cell with even x and y, at *)
(* half its position.  The landmass of the model is a window of PackW by   *)
(* PackH working cells less at most MaxHoles of them, each standing for    *)
(* the 2 by 2 landmass cells above it.  The program draws building sizes   *)
(* from 5..9 (MIN_BUILDING_SIZE..MAX_BUILDING_SIZE); the model draws them  *)
(* from MinBuildingSize..MaxBuildingSize, the upper end left out as        *)
(* gen_range does.                                                         *)
(***************************************************************************)
PackW == 5
PackH == 4
MaxHoles == 2
MinBuildingSize == 1
MaxBuildingSize == 3

PackWindow == (-1..(PackW - 2)) \X (-1..(PackH - 2))

\* enum Value { Vacant, Occupied(usize) }; Unknown is the None of get.
Unknown == [tag |-> "None", i |-> -1]

Vacant == [tag |-> "Vacant", i |-> -1]

Occupied(i) == [tag |-> "Occupied", i |-> i]

\* s.x.rem_euclid(2) == 0 && s.y.rem_euclid(2) == 0
ivec2_rem_euclid_2(s) == s[1] % 2 = 0 /\ s[2] % 2 = 0

\* pos / 2 of IVec2: each component divided, rounding towards zero.
IVec2Div2(pos) ==
  LET half(a) == IF a >= 0 THEN a \div 2 ELSE -((-a) \div 2)
  IN <<half(pos[1]), half(pos[2])>>

\* The landmass cells above a set of working cells.
Upscaled(shape) ==
  {<<(2 * p[1]) + dx, (2 * p[2]) + dy>> : p \in shape, dx \in 0..1, dy \in 0..1}

RECURSIVE HoleSets(_)
\* The sets of at most n cells of the window.
HoleSets(n) ==
  IF n = 0 THEN {{}}
  ELSE HoleSets(n - 1) \cup {h \cup {c} : h \in HoleSets(n - 1), c \in PackWindow}

PackShapes == {PackWindow \ holes : holes \in HoleSets(MaxHoles)}

\* grid.cells().filter_map(|(pos, _)| match ivec2_rem_euclid_2(pos) { true =>
\* Some((pos / 2, Value::Vacant)), false => None }).collect::<SparseGrid<Value>>()
WorkingGrid(landmass) ==
  LET kept == {IVec2Div2(pos) : pos \in {c \in landmass : ivec2_rem_euclid_2(c)}}
  IN [p \in PackWindow |-> IF p \in kept THEN Vacant ELSE Unknown]

\* SparseGrid::get on the working grid: None outside the window.
PackGet(grid, p) == IF p \in DOMAIN grid THEN grid[p] ELSE Unknown

\* SparseGrid::cells on the working grid: the present cells, row by row.
PackCells(grid) ==
  SelectSeq([k \in 1..(PackW * PackH) |-> <<((k - 1) % PackW) - 1, ((k - 1) \div PackW) - 1>>],
            LAMBDA p : grid[p] # Unknown)

BuildingShape(edge_min, edge_max) == [edge_min |-> edge_min, edge_max |-> edge_max]

\* The cells of a building: edge_min..=edge_max on both axes.
Inside(building) ==
  (building.edge_min[1]..building.edge_max[1]) \X (building.edge_min[2]..building.edge_max[2])

\* The ring one cell outside the building: is_edge_x || is_edge_y.
Edge(building) ==
  (((building.edge_min[1] - 1)..(building.edge_max[1] + 1))
     \X ((building.edge_min[2] - 1)..(building.edge_max[2] + 1))) \ Inside(building)

get_neighbor_count_if_vacant_AnyInterior(grid, building) ==
  IF \E p \in Edge(building) : PackGet(grid, p) = Unknown
  THEN None
  ELSE Some(Cardinality({p \in Edge(building) : PackGet(grid, p).tag = "Occupied"}))

get_neighbor_count_if_vacant_AnyEdge(grid, building) ==
  IF \E p \in Inside(building) : PackGet(grid, p) # Vacant
  THEN None
  ELSE Some(Cardinality({p \in Edge(building) : PackGet(grid, p).tag = "Occupied"}))

\* None as soon as a cell inside is None or Occupied or a cell of the ring is
\* None; otherwise the number of Occupied cells of the ring.
get_neighbor_count_if_vacant(grid, building) ==
  IF \/ \E p \in Inside(building) : PackGet(grid, p).tag \in {"None", "Occupied"}
     \/ \E p \in Edge(building) : PackGet(grid, p).tag = "None"
  THEN None
  ELSE Some(Cardinality({p \in Edge(building) : PackGet(grid, p).tag = "Occupied"}))

\* mutant: the first of the valid candidates is taken, whatever its score
generate_next_building_FirstValid(grid, size) ==
  LET at(pos) == BuildingShape(pos, <<pos[1] + size[1] - 1, pos[2] + size[2] - 1>>)
      scored == SelectSeq(PackCells(grid),
                          LAMBDA pos : get_neighbor_count_if_vacant(grid, at(pos)) # None)
  IN IF scored = <<>> THEN None ELSE Some(at(Head(scored)))

\* .max_by_key(|e| e.0).map(|(_, building)| building) over the scored
\* candidates <<Some(n), building>>: the last of those with the largest n
max_by_score(scored) ==
  IF scored = <<>>
  THEN None
  ELSE LET best == CHOOSE k \in 1..Len(scored) :
                     /\ \A j \in 1..Len(scored) : scored[j][1][1] <= scored[k][1][1]
                     /\ \A j \in (k + 1)..Len(scored) : scored[j][1][1] < scored[k][1][1]
       IN Some(scored[best][2])

\* The candidate at every cell of cells(), scored; filter_map drops the
\* candidates whose count is None, max_by_key keeps the last of the
\* candidates with the largest score.
generate_next_building(grid, size) ==
  LET at(pos) == BuildingShape(pos, <<pos[1] + size[1] - 1, pos[2] + size[2] - 1>>)
      counted(all) ==
        [k \in 1..Len(all) |-> <<get_neighbor_count_if_vacant(grid, at(all[k])), at(all[k])>>]
      scored(all) == SelectSeq(counted(all), LAMBDA e : e[1] # None)
  IN CHOOSE building \in {max_by_score(e) : e \in {scored(all) : all \in {PackCells(grid)}}} : TRUE

\* put_building_in_vacancy: every cell of the building must be Some(Vacant)
\* and becomes Occupied(i); any other cell panics.
put_building_in_vacancy(grid, building, i) ==
  IF \A p \in Inside(building) : PackGet(grid, p) = Vacant
  THEN [panic |-> FALSE,
        grid |-> [p \in DOMAIN grid |-> IF p \in Inside(building) THEN Occupied(i) ELSE grid[p]]]
  ELSE [panic |-> TRUE, grid |-> grid]

BuildingSizes == (MinBuildingSize..(MaxBuildingSize - 1)) \X (MinBuildingSize..(MaxBuildingSize - 1))

\* The working grid is collected; i = 0 and buildings is empty (379-386).
PackStart ==
  /\ pk # Idle
  /\ pk.phase = "called"
  /\ pk' = [pk EXCEPT !.phase = "packing", !.grid = WorkingGrid(pk.landmass)]
  /\ UNCHANGED <<ls_noise, ls, mp, geomVars, tuVars, gridVars, boxVars, worldVars>>

\* One turn of the loop: generate_next_building gave a building (387-391).
\* `covered` keeps what the cells of the building held before the placement.
PackPlace ==
  /\ pk # Idle
  /\ pk.phase = "packing"
  /\ \E size \in BuildingSizes : \E next \in {generate_next_building(pk.grid, size)} :
       /\ next # None
       /\ \E put \in {put_building_in_vacancy(pk.grid, next[1], pk.i)} :
            pk' = [pk EXCEPT !.phase = IF put.panic THEN "panicked" ELSE "packing",
                             !.grid = put.grid,
                             !.covered = {PackGet(pk.grid, p) : p \in Inside(next[1])},
                             !.buildings = IF put.panic THEN pk.buildings
                                           ELSE Append(pk.buildings, next[1]),
                             !.i = IF put.panic THEN pk.i ELSE pk.i + 1]
  /\ UNCHANGED <<ls_noise, ls, mp, geomVars, tuVars, gridVars, boxVars, worldVars>>

\* generate_next_building gave None: the loop ends and buildings is returned.
PackReturn ==
  /\ pk # Idle
  /\ pk.phase = "packing"
  /\ \E size \in BuildingSizes : generate_next_building(pk.grid, size) = None
  /\ pk' = [pk EXCEPT !.phase = "returned"]
  /\ UNCHANGED <<ls_noise, ls, mp, geomVars, tuVars, gridVars, boxVars, worldVars>>

InitPack ==
  /\ \E shape \in PackShapes :
       pk = [phase |-> "called", landmass |-> Upscaled(shape),
             grid |-> [p \in PackWindow |-> Unknown], i |-> 0,
             buildings |-> <<>>, covered |-> {}]
  /\ ls_noise = Idle
  /\ ls = Idle
  /\ mp = Idle
  /\ GeomIdle
  /\ TUIdle
  /\ GridIdle
  /\ BoxIdle
  /\ WorldIdle

NextPack ==
  \/ PackStart
  \/ PackPlace
  \/ PackReturn

SpecPack == InitPack /\ [][NextPack]_vars

(***************************************************************************)
(* Termination.  discover and generate_building_shapes are sequential      *)
(* loops: whenever a turn of a loop can be taken the program takes it, so  *)
(* the steps of either are weakly fair.  One call of generate_new of       *)
(* landmass_shape.rs, or one call of generate_building_shapes, is followed *)
(* to its end.                                                             *)
(***************************************************************************)
\* the fields of InitShape without the +0.0 samples, which value > 0.0 of
\* landmass_shape.rs takes as it takes the samples below zero
InitDiscover ==
  /\ \/ \E size \in 0..MaxSize : \E seed \in Seeds(size) :
          ls_noise = [size |-> size, seed |-> seed, zeros |-> {}]
     \/ ls_noise = [size |-> HoleSize, seed |-> HoleField, zeros |-> {}]
  /\ ls = Idle
  /\ mp = Idle
  /\ pk = Idle
  /\ GeomIdle
  /\ TUIdle
  /\ GridIdle
  /\ BoxIdle
  /\ WorldIdle

\* the working grids of InitPack that lack fewer than MaxHoles cells
InitPacking ==
  /\ \E holes \in HoleSets(MaxHoles - 1) :
       pk = [phase |-> "called", landmass |-> Upscaled(PackWindow \ holes),
             grid |-> [p \in PackWindow |-> Unknown], i |-> 0,
             buildings |-> <<>>, covered |-> {}]
  /\ ls_noise = Idle
  /\ ls = Idle
  /\ mp = Idle
  /\ GeomIdle
  /\ TUIdle
  /\ GridIdle
  /\ BoxIdle
  /\ WorldIdle

InitTerminates == InitDiscover \/ InitPacking

NextTerminates ==
  \/ GenerateNew
  \/ FillStep
  \/ RootSelect
  \/ WalkStep
  \/ HolesStart
  \/ HolesStep
  \/ Derive
  \/ PackStart
  \/ PackPlace
  \/ PackReturn

SpecTerminates == InitTerminates /\ [][NextTerminates]_vars /\ WF_vars(NextTerminates)

(***************************************************************************)
(* City::generate_new (city.rs) and Layer (city/layer.rs).  What the       *)
(* generation of a layer gives, its pillar points, its building shapes and *)
(* their heights, is drawn from LayerContents; the landmass of a layer is  *)
(* kept as the level and size it was made with.                            *)
(***************************************************************************)
MaxLayers == 3
PILLAR_RADIUS == 3
LayerHeight == 48
WORLD_MIN_Z == 0 - 64

\* Pillar::new_bounded(origin, radius, Some(min), Some(max))
PillarNewBounded(origin, radius, min, max) ==
  [min_height |-> min, max_height |-> max, origin |-> origin, radius |-> radius]

\* Pillar::bounding_box
PillarBoundingBox(p) ==
  LET o == p.radius + 1
  IN BoundingBoxNew(<<p.origin[1] - o, p.origin[2] - o, p.min_height>>,
                    <<p.origin[1] + o, p.origin[2] + o, p.max_height>>)

\* Building::from_shape
BuildingFromShape(building_shape, level, h) ==
  [edge_min |-> <<building_shape.edge_min[1] * 2, building_shape.edge_min[2] * 2>>,
   edge_max |-> <<building_shape.edge_max[1] * 2, building_shape.edge_max[2] * 2>>,
   level |-> level, height |-> (h * 2) + 1]

\* BoundingBox::intersects: on every axis the least corner of one box lies
\* within the other box.
BoundingBoxIntersects(b1, b2) ==
  \A f \in 1..3 :
    \/ contains(b1.min[f], b2.min[f], b2.max[f])
    \/ contains(b2.min[f], b1.min[f], b1.max[f])

\* do_geometries_intersect(building, pillar)
do_geometries_intersect(building, pillar) ==
  BoundingBoxIntersects(BuildingBoundingBox(building), PillarBoundingBox(pillar))

\* The pillar points and building shapes a layer may be generated with.
PillarPointLists == {<<>>, <<<<0, 0>>>>, <<<<10, 0>>, <<0, 10>>>>}

ShapeAt(x, w, h) == [shape |-> BuildingShape(<<x, 0>>, <<x + w, 0>>), height |-> h]

ShapeLists ==
  {<<>>,
   <<ShapeAt(0, 0, 2), ShapeAt(3, 0, 3), ShapeAt(6, 1, 2)>>,
   <<ShapeAt(6, 0, 2), ShapeAt(0, 0, 2), ShapeAt(0, 0, 2), ShapeAt(3, 1, 7)>>}

LayerContents == {[points |-> ps, shapes |-> ss] : ps \in PillarPointLists, ss \in ShapeLists}

\* Layer::generate_new(rng, top, bottom, size), given what the landmass shape
\* generated.
LayerGenerateNew(contents, top, bottom, size) ==
  [landmass |-> [level |-> top, size |-> size],
   pillars |-> [k \in 1..Len(contents.points) |->
                  PillarNewBounded(contents.points[k], PILLAR_RADIUS, bottom, top)],
   buildings |-> [k \in 1..Len(contents.shapes) |->
                    BuildingFromShape(contents.shapes[k].shape, top, contents.shapes[k].height)]]

\* The closure of the parallel map, for the layer at index i (from 0).
LayerAt(contents, i, layer_count) ==
  LayerGenerateNew(contents, (i + 1) * LayerHeight,
                   IF i = 0 THEN WORLD_MIN_Z ELSE i * LayerHeight,
                   layer_count - i)

Colliding(buildings, pillars) ==
  {buildings[j] : j \in {k \in 1..Len(buildings) :
     \E p \in 1..Len(pillars) : do_geometries_intersect(buildings[k], pillars[p])}}

LayerRemoveBuildingsCollidingWith_OwnPillars(below, above) ==
  [below EXCEPT !.buildings = Retain(below.buildings, Colliding(below.buildings, below.pillars))]

\* Layer::remove_buildings_colliding_with: self.buildings.retain(|building|
\* !above.pillars.iter().any(|pillar| do_geometries_intersect(building, pillar)))
LayerRemoveBuildingsCollidingWith(below, above) ==
  [below EXCEPT !.buildings = Retain(below.buildings, Colliding(below.buildings, above.pillars))]

\* rngs ... into_par_iter().enumerate().map(..).collect::<Vec<Layer>>(): the
\* layers in the order of their index (24-35).
CityGenerateLayers ==
  /\ city.phase = "called"
  /\ LET layers == [k \in 1..city.layer_count |->
                      LayerAt(city.contents[k], k - 1, city.layer_count)]
     IN city' = [city EXCEPT !.phase = "windows", !.layers = layers, !.generated = layers]
  /\ UNCHANGED <<sink, geomVars, tuVars, gridVars, boxVars, cityVars>>

\* One turn of the loop of windows_mut_each with N = 2 (67-72): the window
\* is [below, above] = slice[i..i + 2].
CityWindow ==
  /\ city.phase = "windows"
  /\ Len(city.layers) >= 2
  /\ city.i < (Len(city.layers) + 1) - 2
  /\ LET below == city.layers[city.i + 1]
         above == city.layers[city.i + 2]
         after == LayerRemoveBuildingsCollidingWith(below, above)
     IN city' = [city EXCEPT !.layers = SubSeq(city.layers, 1, city.i)
                                          \o <<after>>
                                          \o SubSeq(city.layers, city.i + 2, Len(city.layers)),
                             !.i = city.i + 1,
                             !.windows = Append(city.windows, city.i)]
  /\ UNCHANGED <<sink, geomVars, tuVars, gridVars, boxVars, cityVars>>

\* windows_mut_each returns (slice.len() < N, or the range is exhausted) and
\* City { layers: Union::new(layers) } is built (40-42).
CityReturn ==
  /\ city.phase = "windows"
  /\ \/ Len(city.layers) < 2
     \/ city.i >= (Len(city.layers) + 1) - 2
  /\ city' = [city EXCEPT !.phase = "returned"]
  /\ UNCHANGED <<sink, geomVars, tuVars, gridVars, boxVars, cityVars>>

InitCity ==
  /\ \E n \in 0..MaxLayers : \E contents \in [1..n -> LayerContents] :
       city = [phase |-> "called", layer_count |-> n, contents |-> contents,
               layers |-> <<>>, generated |-> <<>>, i |-> 0, windows |-> <<>>]
  /\ sink = Idle
  /\ GeomIdle
  /\ TUIdle
  /\ GridIdle
  /\ BoxIdle
  /\ CityIdle

NextCity ==
  \/ CityGenerateLayers
  \/ CityWindow
  \/ CityReturn

SpecCity == InitCity /\ [][NextCity]_vars

(***************************************************************************)
(* Unify as a GeometryDescriber (kettenkrad/src/geometry/unify.rs) writing *)
(* into WorldData (geometry/world_data.rs).  The children are leaves       *)
(* wrapped in GeometryMaterializer; `contents` holds them in declaration   *)
(* order and `order` the indexes of the children still to be described.    *)
(***************************************************************************)
\* for pos in bounding_box: the positions of the box.
BoundingBoxPositions(bb) ==
  (bb.min[1]..bb.max[1]) \X (bb.min[2]..bb.max[2]) \X (bb.min[3]..bb.max[3])

\* WorldData::new(): no block anywhere.
WorldDataNew == [pos \in Points |-> None]

\* GeometryMaterializer::describe into a WorldData: receive_block(pos, block),
\* which is insert(pos, block), for every position of the bounding box where
\* block_material_at is Some; insert replaces the block that was there.
MaterializerDescribe(g, store) ==
  [pos \in DOMAIN store |->
     IF pos \in BoundingBoxPositions(LeafBoundingBox(g)) /\ LeafBlockMaterialAt(g, pos) # None
     THEN LeafBlockMaterialAt(g, pos)
     ELSE store[pos]]

\* reverse_statements!{ s0; s1; ... }: the rest reversed, then s0.
RECURSIVE reverse_statements(_)
reverse_statements(stmts) ==
  IF Len(stmts) <= 1 THEN stmts
  ELSE reverse_statements(Tail(stmts)) \o <<Head(stmts)>>

\* The statements $g.describe(&mut receiver), one for each child of the tuple.
TupleStatements(n) == [k \in 1..n |-> k]

unify_describe_order_Forward(n) == [k \in 1..n |-> k]

\* for geometry in contents.iter().rev()
unify_describe_order(n) == [k \in 1..n |-> (n + 1) - k]

\* Unify<(A, B, ..)>::describe is entered (107-110).
DescribeUnifyTuple ==
  /\ sink.phase = "called"
  /\ sink.kind = "tuple"
  /\ sink' = [sink EXCEPT !.phase = "describing",
                          !.order = reverse_statements(TupleStatements(Len(sink.contents)))]
  /\ UNCHANGED <<city, geomVars, tuVars, gridVars, boxVars, cityVars>>

\* Unify<[G; N]>::describe or Unify<Vec<G>>::describe is entered: unify_describe
\* (142-145).
DescribeUnifySlice ==
  /\ sink.phase = "called"
  /\ sink.kind = "slice"
  /\ sink' = [sink EXCEPT !.phase = "describing",
                          !.order = unify_describe_order(Len(sink.contents))]
  /\ UNCHANGED <<city, geomVars, tuVars, gridVars, boxVars, cityVars>>

\* The next child describes itself to the receiver.
DescribeChild ==
  /\ sink.phase = "describing"
  /\ Len(sink.order) > 0
  /\ LET k == sink.order[1]
     IN sink' = [sink EXCEPT !.order = SubSeq(sink.order, 2, Len(sink.order)),
                             !.described = Append(sink.described, k),
                             !.store = MaterializerDescribe(sink.contents[k], sink.store)]
  /\ UNCHANGED <<city, geomVars, tuVars, gridVars, boxVars, cityVars>>

\* describe returns.
DescribeReturn ==
  /\ sink.phase = "describing"
  /\ Len(sink.order) = 0
  /\ sink' = [sink EXCEPT !.phase = "returned"]
  /\ UNCHANGED <<city, geomVars, tuVars, gridVars, boxVars, cityVars>>

InitDescribe ==
  /\ \E kind \in {"tuple", "slice"} : \E contents \in SeqsUpTo(Leaves, MaxKids) :
       /\ kind = "tuple" => Len(contents) >= 2
       /\ sink = [phase |-> "called", kind |-> kind, contents |-> contents,
                  order |-> <<>>, described |-> <<>>, store |-> WorldDataNew]
  /\ city = Idle
  /\ GeomIdle
  /\ TUIdle
  /\ GridIdle
  /\ BoxIdle
  /\ CityIdle

NextDescribe ==
  \/ DescribeUnifyTuple
  \/ DescribeUnifySlice
  \/ DescribeChild
  \/ DescribeReturn

SpecDescribe == InitDescribe /\ [][NextDescribe]_vars

(***************************************************************************)
(* Properties of the combinators.                                          *)
(***************************************************************************)
UnionOps == {"Union<tuple>", "Union<array>", "Union<Vec>", "Unify<tuple>", "Unify<slice>"}

SomeChildHolds(pos) == \E i \in 1..Len(kids) : LeafBlockAt(kids[i], pos)

ChildrenWithMaterial(pos) == {i \in 1..Len(kids) : LeafBlockMaterialAt(kids[i], pos) # None}

\* C1: a Union (tuple of 2 to 5, array, Vec, Unify) holds a point exactly when
\* at least one of its children holds it.
C1_UnionContainsIffSomeChild ==
  out.op \in UnionOps =>
    \A pos \in Points : out.block[pos] = SomeChildHolds(pos)

\* C1 witness: a Union of five children sampled at a point that only the fifth holds.
C1_Witness ==
  /\ out.op = "Union<tuple>"
  /\ Len(kids) = 5
  /\ \E pos \in Points :
       /\ out.block[pos]
       /\ LeafBlockAt(kids[5], pos)
       /\ \A i \in 1..4 : ~LeafBlockAt(kids[i], pos)

\* C2: the material of a Union at a point is that of the lowest-indexed child
\* with a material there, and is absent exactly when every child's is absent.
C2_UnionMaterialIsFirstChild ==
  out.op \in UnionOps =>
    \A pos \in Points :
      IF ChildrenWithMaterial(pos) = {}
      THEN out.material[pos] = None
      ELSE /\ out.material[pos] # None
           /\ out.material[pos] = LeafBlockMaterialAt(kids[Lowest(ChildrenWithMaterial(pos))], pos)

\* C2 witness: two children of different materials overlap at a sampled point,
\* the first declared one wins; at another point no child has a material.
C2_Witness ==
  /\ out.op = "Union<Vec>"
  /\ \E pos \in Points, i \in 1..Len(kids), j \in 1..Len(kids) :
       /\ i < j
       /\ i = Lowest(ChildrenWithMaterial(pos) \cup {i})
       /\ j \in ChildrenWithMaterial(pos)
       /\ i \in ChildrenWithMaterial(pos)
       /\ kids[i].material # kids[j].material
       /\ out.material[pos] = Some(kids[i].material)
  /\ \E pos \in Points : ChildrenWithMaterial(pos) = {} /\ out.material[pos] = None

\* C3: Intersect(G1, G2) holds a point iff both do; its material is G1's where
\* G2 holds the point and absent elsewhere.
C3_Intersect ==
  out.op = "Intersect" =>
    \A pos \in Points :
      /\ out.block[pos] = (LeafBlockAt(kids[1], pos) /\ LeafBlockAt(kids[2], pos))
      /\ out.material[pos] =
           (IF LeafBlockAt(kids[2], pos) THEN LeafBlockMaterialAt(kids[1], pos) ELSE None)

\* C3 witness: G1 has a material at a point G2 does not hold (absent), and at a
\* point G2 holds (G1's material, not G2's).
C3_Witness ==
  /\ out.op = "Intersect"
  /\ kids[1].material # kids[2].material
  /\ \E pos \in Points :
       /\ LeafBlockAt(kids[1], pos) /\ ~LeafBlockAt(kids[2], pos)
       /\ out.material[pos] = None
  /\ \E pos \in Points :
       /\ LeafBlockAt(kids[1], pos) /\ LeafBlockAt(kids[2], pos)
       /\ out.material[pos] = Some(kids[1].material)

\* the mask box holds the point: BoundingBox2 on the truncated point
\* (GeometryReceiverMasked), BoundingBox3 on the point
MaskBoxHolds(op, mask, pos) ==
  IF op = "Mask<G, BoundingBox2>" THEN BoundingBox2Contains(mask, truncate(pos))
  ELSE BoundingBox3Contains(mask, pos)

\* C4: masking by a bounding box answers as the generic mask does: the point
\* is held iff the box and G hold it, the material is G's inside the box and
\* absent outside.
C4_MaskBoxAsGeneric ==
  out.op \in {"Mask<G, BoundingBox2>", "Mask<G, BoundingBox3>"} =>
    \A pos \in Points :
      /\ out.block[pos] = (MaskBoxHolds(out.op, out.args, pos) /\ LeafBlockAt(kids[1], pos))
      /\ out.material[pos] =
           (IF MaskBoxHolds(out.op, out.args, pos) THEN LeafBlockMaterialAt(kids[1], pos) ELSE None)

\* C5: LimitBounds answers every point as G does, the points outside the
\* rectangle included; the advertised box is G's with x and y clipped to the
\* rectangle and z as in G.
C5_LimitBoundsOnlyBox ==
  out.op = "LimitBounds" =>
    LET lb == out.args
        gbox == LeafBoundingBox(lb.geometry)
        box == out.box[2]
    IN /\ \A pos \in Points :
            /\ out.block[pos] = LeafBlockAt(lb.geometry, pos)
            /\ out.material[pos] = LeafBlockMaterialAt(lb.geometry, pos)
            /\ BoundingBoxContains(box, pos) =
                 (/\ BoundingBoxContains(gbox, pos)
                  /\ pos[1] >= lb.bounds_min[1] /\ pos[1] <= lb.bounds_max[1]
                  /\ pos[2] >= lb.bounds_min[2] /\ pos[2] <= lb.bounds_max[2])
       /\ out.box[1] = "ok"
       /\ box.min[3] = gbox.min[3] /\ box.max[3] = gbox.max[3]
       /\ box.min[1] >= gbox.min[1] /\ box.max[1] <= gbox.max[1]
       /\ box.min[2] >= gbox.min[2] /\ box.max[2] <= gbox.max[2]

\* C5 witness: G holds a point outside the rectangle, LimitBounds holds it too,
\* and the advertised box is strictly smaller than G's.
C5_Witness ==
  /\ out.op = "LimitBounds"
  /\ \E pos \in Points :
       /\ ~(pos[1] >= out.args.bounds_min[1] /\ pos[1] <= out.args.bounds_max[1])
       /\ out.block[pos]
       /\ out.material[pos] # None
       /\ ~BoundingBoxContains(out.box[2], pos)
  /\ out.box[2] # LeafBoundingBox(out.args.geometry)

(***************************************************************************)
(* Properties of UnionThreaded.                                            *)
(***************************************************************************)
TUSomeChildHolds(pos) == \E i \in 1..Len(tu_geoms) : LeafBlockAt(tu_geoms[i], pos)

TUChildrenWithMaterial(pos) ==
  {i \in 1..Len(tu_geoms) : LeafBlockMaterialAt(tu_geoms[i], pos) # None}

TUFirstMaterial(pos) ==
  IF TUChildrenWithMaterial(pos) = {} THEN None
  ELSE LeafBlockMaterialAt(tu_geoms[Lowest(TUChildrenWithMaterial(pos))], pos)

\* C6: with no children, a query ends with "does not contain" / "no material"
\* and bounding_box ends without a panic.
C6_EmptyUnionAnswersNothing ==
  tu_geoms = <<>> =>
    /\ tu_call.pc = "done" =>
         tu_call.result = Returned(IF tu_call.op = "block_at" THEN FALSE ELSE None)
    /\ \A t \in 1..Callers : tu_bb[t].pc = "returned" => tu_bb[t].ret # Panic

\* C7: whatever the order in which the workers evaluated the children, a
\* block_at ends with TRUE exactly when some child holds the point; the
\* rejection by the bounding box is one of the ways it ends.
C7_ThreadedContainsIffSomeChild ==
  (tu_call.pc = "done" /\ tu_call.op = "block_at") =>
    tu_call.result = Returned(TUSomeChildHolds(tu_call.pos))

\* C8: whatever the interleaving, a block_material_at ends with the material
\* of the lowest-indexed child that has one at the point.
C8_ThreadedMaterialIsFirstChild ==
  (tu_call.pc = "done" /\ tu_call.op = "block_material_at") =>
    tu_call.result = Returned(TUFirstMaterial(tu_call.pos))

\* C9: every bounding_box call that returned a box, the first concurrent
\* ones and those after a retain or push, gives the join of the boxes of the
\* children held now.
C9_BoundingBoxOfCurrentChildren ==
  \A t \in 1..Callers :
    (tu_bb[t].pc = "returned" /\ tu_bb[t].ret # Panic) =>
      /\ tu_geoms # <<>>
      /\ tu_bb[t].ret = Returned(FoldJoin(ChildBoxes(tu_geoms)))

(***************************************************************************)
(* Properties of the grid.                                                 *)
(***************************************************************************)
\* the coordinates read back: the written range and a ring around it
Probe == (-2..(GridMax + 1)) \X (-2..(GridMax + 1))

\* C10: after put_expand(c, v), get(c) gives v and every other coordinate
\* reads as it did before the write.
C10_PutExpandThenGet ==
  [][g_last'.op = "put_expand" =>
       /\ g_last'.ret = Returned(TRUE)
       /\ \A d \in Probe :
            get(Grid(g_rows', g_columns', g_offset'), d) =
              (IF d = g_last'.pos THEN Some(g_last'.value) ELSE get(TheGrid, d))]_vars

\* C10 witness: a put_expand in front of the window on both axes, with a cell
\* written earlier still there.
C10_Witness ==
  /\ g_last.op = "put_expand"
  /\ g_offset[1] < 0 /\ g_offset[2] < 0
  /\ g_last.pos = g_offset
  /\ get(TheGrid, g_last.pos) = Some(g_last.value)
  /\ \E d \in GridPos : d # g_last.pos /\ get(TheGrid, d) # None
  /\ g_columns > 2 /\ height(TheGrid) > 2

LeqVec2(a, b) == a[1] <= b[1] /\ a[2] <= b[2]

\* the bounds are the running minimum and maximum, the written coordinate is
\* inside them, the rows are all `columns` long and the positions that have a
\* cell are those of [offset, offset + size)
GridBoundsExact ==
  /\ GridMin(TheGrid) = g_last.lo
  /\ GridMax2(TheGrid) = g_last.hi
  /\ g_last.op = "put_expand" =>
       LeqVec2(GridMin(TheGrid), g_last.pos) /\ LeqVec2(g_last.pos, GridMax2(TheGrid))
  /\ \A y \in 1..Len(g_rows) : Len(g_rows[y]) = g_columns
  /\ \A d \in Probe :
       (grid_pos(TheGrid, d) # None) <=>
         /\ g_offset[1] <= d[1] /\ d[1] < g_offset[1] + width(TheGrid)
         /\ g_offset[2] <= d[2] /\ d[2] < g_offset[2] + height(TheGrid)

\* C11: after any sequence of put_expand, put and remove, min() and max() are
\* the componentwise minimum and maximum of the initial cell and of every
\* coordinate given to put_expand; min never increases, max never decreases,
\* and the window is [offset, offset + size) with rows of `columns` cells.
C11_GridBoundsGrowOnly ==
  /\ []GridBoundsExact
  /\ [][/\ LeqVec2(GridMin(Grid(g_rows', g_columns', g_offset')), GridMin(TheGrid))
        /\ LeqVec2(GridMax2(TheGrid), GridMax2(Grid(g_rows', g_columns', g_offset')))]_vars

\* C11 witness: put_expand has moved the bounds on both sides of both axes and
\* the last operation, outside the window or not, left them there.
C11_Witness ==
  /\ g_last.n = MaxOps
  /\ g_last.lo[1] < 0 /\ g_last.lo[2] < 0
  /\ g_last.hi[1] > 0 /\ g_last.hi[2] > 0
  /\ GridMin(TheGrid) = g_last.lo
  /\ GridMax2(TheGrid) = g_last.hi

\* one step of the grid, seen from outside the window: where inRange holds, an
\* operation outside the window returns absent / false and changes nothing, a
\* read returns what get gives, a removed cell reads as absent, and a cell
\* added by an expansion reads as absent
OutOfWindowStep(inRange) ==
  /\ (g_last'.op \in {"get", "get_mut", "remove", "put"}
       /\ grid_pos(TheGrid, g_last'.pos) = None /\ inRange) =>
        /\ g_last'.ret = Returned(IF g_last'.op = "put" THEN FALSE ELSE None)
        /\ g_rows' = g_rows /\ g_columns' = g_columns /\ g_offset' = g_offset
  /\ (g_last'.op \in {"get", "get_mut"} /\ inRange) =>
        /\ g_last'.ret = Returned(get(TheGrid, g_last'.pos))
        /\ g_rows' = g_rows /\ g_columns' = g_columns /\ g_offset' = g_offset
  /\ g_last'.op = "remove" =>
        get(Grid(g_rows', g_columns', g_offset'), g_last'.pos) = None
  /\ g_last'.op = "put_expand" =>
        \A d \in Probe :
          (grid_pos(TheGrid, d) = None /\ d # g_last'.pos) =>
            get(Grid(g_rows', g_columns', g_offset'), d) = None

\* C12 as stated: get, get_mut, remove and put at any coordinate outside the
\* window never fail: they return absent / false and leave cells, offset and
\* size as they were.
C12_NeverFails == [][OutOfWindowStep(TRUE)]_vars

\* C12 amended: get, get_mut, remove and put at a coordinate outside the
\* window whose distance from the offset fits isize return absent / false and
\* leave cells, offset and size as they were; a removed cell and a cell added
\* by an expansion read as absent, as a coordinate outside the window does.
\* When the distance from the offset does not fit isize the call panics and
\* the grid is as it was.
C12_OutOfWindowIsAbsent ==
  [][/\ OutOfWindowStep(~pos_panics(TheGrid, g_last'.pos))
     /\ (g_last'.op \in {"get", "get_mut", "remove", "put"}
          /\ pos_panics(TheGrid, g_last'.pos)) =>
           /\ g_last'.ret = Panic
           /\ g_rows' = g_rows /\ g_columns' = g_columns /\ g_offset' = g_offset]_vars

\* C12 witness: a put outside the window of a grid that holds a value has
\* returned false.
C12_Witness ==
  /\ g_last.op = "put"
  /\ g_last.ret = Returned(FALSE)
  /\ grid_pos(TheGrid, g_last.pos) = None
  /\ \E d \in GridPos : get(TheGrid, d) # None

\* min <= max on every axis of a box of the generator
Ordered3(b) ==
  /\ b.min[1] <= b.max[1]
  /\ b.min[2] <= b.max[2]
  /\ b.min[3] <= b.max[3]

\* C13: the box advertised by every geometry and combinator, LimitBounds for
\* any rectangle included, has min <= max on every axis.
C13_AdvertisedBoxIsOrdered ==
  (out.op # "idle" /\ Len(out.box) = 2) => Ordered3(out.box[2])

(***************************************************************************)
(* Properties of the bounding boxes.                                       *)
(***************************************************************************)
\* the points probed: the corners of the boxes drawn, of their dimension
BoxPoints == IF bx_in.dim = 2 THEN Vec2s ELSE Vec3s

\* on axis f, the larger of the mins and the smaller of the maxes of a and b
MaxOfMins(a, b, f) == IF a.min[f] >= b.min[f] THEN a.min[f] ELSE b.min[f]
MinOfMaxes(a, b, f) == IF a.max[f] <= b.max[f] THEN a.max[f] ELSE b.max[f]

\* a and b are apart on some axis
Apart(a, b) == \E f \in 1..bx_in.dim : MaxOfMins(a, b, f) > MinOfMaxes(a, b, f)

\* C14: intersect(a, b) is absent exactly when the max of the mins exceeds the
\* min of the maxes on some axis; otherwise it is the box (max of mins, min of
\* maxes), which holds a point exactly when a and b both hold it.
\* intersects_with(a, b) is true exactly in the second case, and equals
\* intersects_with(b, a).
C14_IntersectIsOverlap ==
  /\ bx_out.op = "intersect" =>
       /\ (bx_out.ab = None) <=> Apart(bx_in.a, bx_in.b)
       /\ bx_out.ab # None =>
            /\ \A f \in 1..bx_in.dim :
                 /\ bx_out.ab[1].min[f] = MaxOfMins(bx_in.a, bx_in.b, f)
                 /\ bx_out.ab[1].max[f] = MinOfMaxes(bx_in.a, bx_in.b, f)
            /\ \A p \in BoxPoints :
                 BoxContains(bx_in.dim, bx_out.ab[1], p) <=>
                   (BoxContains(bx_in.dim, bx_in.a, p) /\ BoxContains(bx_in.dim, bx_in.b, p))
  /\ bx_out.op = "intersects_with" =>
       /\ bx_out.ab <=> ~Apart(bx_in.a, bx_in.b)
       /\ bx_out.ab = bx_out.ba

\* C14 witness: two boxes of three dimensions that overlap in part: the
\* intersection is present and is neither of them.
C14_Witness ==
  /\ bx_out.op = "intersect"
  /\ bx_in.dim = 3
  /\ bx_out.ab # None
  /\ bx_out.ab # Some(bx_in.a)
  /\ bx_out.ab # Some(bx_in.b)
  /\ bx_out.ab[1].min[1] < bx_out.ab[1].max[1]

\* C15: union(a, b) = union(b, a) and union(union(a, b), c) =
\* union(a, union(b, c)); intersect(a, b) = intersect(b, a); intersect grouped
\* to the left equals intersect grouped to the right, an absent intermediate
\* result making the whole absent; intersect(a, a) = a.
C15_UnionIntersectAlgebra ==
  /\ bx_out.op = "union" => bx_out.ab = bx_out.ba
  /\ bx_out.op = "intersect" =>
       /\ bx_out.ab = bx_out.ba
       /\ bx_out.aa = Some(bx_in.a)
  /\ bx_out.op = "three" =>
       /\ bx_out.union_left = bx_out.union_right
       /\ bx_out.intersect_left = bx_out.intersect_right

\* C15 witness: three different boxes of three dimensions with a common part,
\* no one of them being the union.
C15_Witness ==
  /\ bx_out.op = "three"
  /\ bx_in.dim = 3
  /\ bx_in.a # bx_in.b /\ bx_in.b # bx_out.c /\ bx_in.a # bx_out.c
  /\ bx_out.intersect_left # None
  /\ bx_out.union_left \notin {bx_in.a, bx_in.b, bx_out.c}

(***************************************************************************)
(* Properties of the landmass shape.                                       *)
(***************************************************************************)
\* the queues of this run so far are the queues the first run went through
SameQueuesSoFar ==
  /\ Len(ls.trace) <= Len(ls.first[1].trace)
  /\ \A i \in 1..Len(ls.trace) : ls.trace[i] = ls.first[1].trace[i]
  /\ Len(ls.sampled) <= Len(ls.first[1].sampled)
  /\ \A i \in 1..Len(ls.sampled) : ls.sampled[i] = ls.first[1].sampled[i]

C17_SizeBelowOneIsRejected ==
  (ls # Idle /\ ls_noise.size < 1) =>
    /\ ls.phase = "panicked"
    /\ ls.sampled = <<>>
    /\ ls.size = ls_noise.size

\* The cells of the grid whose edge_distance is the target distance.
MountTargets == {x \in MountCells : mp.grid[x] # Absent /\ mp.grid[x].edge_distance = mp.distance}

\* C18: with n the number of cells whose edge_distance equals the target,
\* mount-point selection returns at most n / spacing + 1 points (integer
\* division; also when n < spacing and when n = 0), every returned point is
\* one of those n cells, and no point is returned twice.
C18_MountPointsBounded ==
  (mp # Idle /\ mp.phase # "called") =>
    /\ Len(mp.picked) <= (Cardinality(MountTargets) \div mp.spacing) + 1
    /\ \A k \in 1..Len(mp.picked) :
         mp.picked[k][2] = 0 /\ mp.picked[k][1] \in MountTargets
    /\ \A j, k \in 1..Len(mp.picked) : j # k => mp.picked[j] # mp.picked[k]

\* C18 witness: a returned selection from fewer matching cells than the
\* spacing (the stride is infinite and one point is returned).
C18_Witness ==
  /\ mp # Idle
  /\ mp.phase = "returned"
  /\ 0 < Cardinality(MountTargets)
  /\ Cardinality(MountTargets) < mp.spacing
  /\ Len(mp.picked) = 1

\* C19: at every step of building packing every cell covered by the building
\* being placed is Vacant (the panic of put_building_in_vacancy is never
\* reached), no two placed buildings share a cell of the occupancy grid, and
\* the cells marked Occupied(i) are exactly the rectangle of building i.
C19_BuildingsFillVacantCells ==
  (pk # Idle /\ pk.phase # "called") =>
    /\ pk.phase # "panicked"
    /\ pk.covered \subseteq {Vacant}
    /\ pk.i = Len(pk.buildings)
    /\ \A j, k \in 1..Len(pk.buildings) :
         j # k => Inside(pk.buildings[j]) \cap Inside(pk.buildings[k]) = {}
    /\ \A k \in 1..Len(pk.buildings) :
         Inside(pk.buildings[k]) = {p \in DOMAIN pk.grid : pk.grid[p] = Occupied(k - 1)}
    /\ \A p \in DOMAIN pk.grid :
         pk.grid[p].tag = "Occupied" => pk.grid[p].i \in 0..(Len(pk.buildings) - 1)

\* C19 witness: packing has returned two buildings that lie side by side.
C19_Witness ==
  /\ pk # Idle
  /\ pk.phase = "returned"
  /\ Len(pk.buildings) >= 2
  /\ Edge(pk.buildings[2]) \cap Inside(pk.buildings[1]) # {}

\* C20: every cell of the ring one cell outside a placed building, corners
\* included, is a cell of the working grid (Vacant or Occupied, never
\* unknown); no building is placed touching the edge of the working grid.
C20_HaloInsideWorkingGrid ==
  (pk # Idle /\ pk.phase # "called") =>
    \A k \in 1..Len(pk.buildings) :
      \A p \in Edge(pk.buildings[k]) :
        /\ p \in DOMAIN pk.grid
        /\ pk.grid[p].tag \in {"Vacant", "Occupied"}

\* C20 witness: a building was placed in a working grid that has a hole, a
\* vacant cell is left between the building and an unknown cell of the window.
C20_Witness ==
  /\ pk # Idle
  /\ pk.phase = "returned"
  /\ Len(pk.buildings) >= 1
  /\ \E p \in Edge(pk.buildings[1]) :
       /\ pk.grid[p] = Vacant
       /\ \E q \in DOMAIN pk.grid :
            /\ pk.grid[q] = Unknown
            /\ Abs(q[1] - p[1]) <= 1
            /\ Abs(q[2] - p[2]) <= 1

\* Two boxes share a point: on every axis the larger of the least corners
\* is not above the smaller of the greatest corners.
BoxesShareAPoint(a, b) ==
  \A f \in 1..3 : Max2(a.min[f], b.min[f]) <= Min2(a.max[f], b.max[f])

\* The buildings of a list, in order, whose box meets the box of no pillar.
ClearOfPillars(buildings, pillars) ==
  SelectSeq(buildings,
            LAMBDA b : \A p \in 1..Len(pillars) :
                         ~BoxesShareAPoint(BuildingBoundingBox(b), PillarBoundingBox(pillars[p])))

\* C21: after City generation with n layers, the buildings of every layer i
\* below the top are the buildings generated for layer i, in the same order,
\* less those whose bounding box intersects the bounding box of a pillar of
\* layer i + 1; the pass runs once for each adjacent pair, never adds a
\* building, and leaves pillars, landmasses and the buildings of the top
\* layer as generated.
C21_BuildingsUnderPillarsRemoved ==
  (city # Idle /\ city.phase # "called") =>
    /\ Len(city.layers) = city.layer_count
    /\ \A k \in 1..Len(city.layers) :
         /\ city.layers[k].pillars = city.generated[k].pillars
         /\ city.layers[k].landmass = city.generated[k].landmass
         /\ Len(city.layers[k].buildings) <= Len(city.generated[k].buildings)
         /\ \A j \in 1..Len(city.layers[k].buildings) :
              \E g \in 1..Len(city.generated[k].buildings) :
                city.layers[k].buildings[j] = city.generated[k].buildings[g]
    /\ city.phase = "returned" =>
         /\ city.windows = [k \in 1..(IF city.layer_count = 0 THEN 0 ELSE city.layer_count - 1)
                              |-> k - 1]
         /\ \A k \in 1..(Len(city.layers) - 1) :
              city.layers[k].buildings =
                ClearOfPillars(city.generated[k].buildings, city.generated[k + 1].pillars)
         /\ city.layer_count >= 1 =>
              city.layers[city.layer_count].buildings
                = city.generated[city.layer_count].buildings

\* C21 witness: a city of three layers is returned; the middle layer lost a
\* building to the pillars of the top layer and kept another, and its own
\* pillars took a building from the bottom layer.
C21_Witness ==
  /\ city # Idle
  /\ city.phase = "returned"
  /\ city.layer_count = 3
  /\ Len(city.layers[2].buildings) < Len(city.generated[2].buildings)
  /\ Len(city.layers[2].buildings) > 0
  /\ Len(city.layers[1].buildings) < Len(city.generated[1].buildings)

\* The children of the composite that have a block at pos.
Coverers(pos) ==
  {k \in 1..Len(sink.contents) : LeafBlockMaterialAt(sink.contents[k], pos) # None}

\* The children were described last to first, each once.
DescribedInReverse ==
  sink.described = [k \in 1..Len(sink.contents) |-> (Len(sink.contents) + 1) - k]

Highest(S) == CHOOSE i \in S : \A j \in S : j <= i

\* C22 (as stated): a describer-style composite describes its children in
\* reverse declaration order, and in an overwrite store the block left at a
\* point covered by several children is the block of the later-declared child.
C22_LaterDeclaredChildWins ==
  (sink # Idle /\ sink.phase = "returned") =>
    /\ DescribedInReverse
    /\ \A pos \in Points :
         Cardinality(Coverers(pos)) >= 2 =>
           sink.store[pos] = LeafBlockMaterialAt(sink.contents[Highest(Coverers(pos))], pos)

\* C22 (amended): a describer-style composite describes its children in
\* reverse declaration order, and in an overwrite store the block left at a
\* point covered by several children is the block of the earliest-declared
\* child that covers it; a point no child covers holds no block.
C22_EarliestDeclaredChildWins ==
  (sink # Idle /\ sink.phase = "returned") =>
    /\ DescribedInReverse
    /\ \A pos \in Points :
         sink.store[pos] = IF Coverers(pos) = {} THEN None
                           ELSE LeafBlockMaterialAt(sink.contents[Lowest(Coverers(pos))], pos)

\* C22 witness: a composite has been described in which some point is covered
\* by two children that hold different blocks.
C22_Witness ==
  /\ sink # Idle
  /\ sink.phase = "returned"
  /\ \E pos \in Points : \E j, k \in Coverers(pos) :
       LeafBlockMaterialAt(sink.contents[j], pos) # LeafBlockMaterialAt(sink.contents[k], pos)

\* The cells where the field is above zero that a 4-connected path of such
\* cells joins to the origin.
PositiveComponent == IF Origin \in ls.noise THEN Joined(ls.noise, {Origin}) ELSE {}

Adjacent4(a, b) == Abs(a[1] - b[1]) + Abs(a[2] - b[2]) = 1

Adjacent8(a, b) == a # b /\ Abs(a[1] - b[1]) <= 1 /\ Abs(a[2] - b[2]) <= 1

\* The interior flood fill has ended: its queue is empty and the search for
\* the outer edge root has not run yet.
FillEnded == ls # Idle /\ ls.phase = "fill" /\ ls.q = <<>>

\* C23: when the interior flood fill ends, a cell is Present exactly when the
\* field is positive at it and a 4-connected path of positive cells joins it
\* to the origin; every other sampled cell is Boundary, has a non-positive
\* sample and, unless it is the origin, is 4-adjacent to a Present cell; no
\* positive cell that non-positive cells separate from the origin is sampled
\* or stored.
C23_InteriorIsPositiveComponent ==
  FillEnded =>
    /\ \A c \in World : ls.grid[c] = "Present" <=> c \in PositiveComponent
    /\ \A c \in World :
         (InSeq(ls.sampled, c) /\ c \notin PositiveComponent) =>
           /\ ls.grid[c] = "Boundary"
           /\ c \notin ls.noise
           /\ c = Origin \/ \E p \in World : ls.grid[p] = "Present" /\ Adjacent4(c, p)
    /\ \A c \in World : ls.grid[c] # "None" => InSeq(ls.sampled, c)
    /\ \A c \in ls.noise \ PositiveComponent : ~InSeq(ls.sampled, c) /\ ls.grid[c] = "None"

\* The cells of `edges` that an 8-connected path of cells of `edges` joins to
\* the cells of `reached`.
RECURSIVE Joined8(_, _)
Joined8(edges, reached) ==
  LET more == {c \in edges : \E r \in reached : Adjacent8(r, c)}
  IN IF more \subseteq reached THEN reached ELSE Joined8(edges, reached \cup more)

\* the cells of a sequence
Range(seq) == {seq[i] : i \in 1..Len(seq)}

BoundaryFinals == {c \in World : ls.grid[c] = "BoundaryFinal"}

\* The outer walk of landmass_shape.rs is running or has just ended.
InWalk == ls # Idle /\ ls.phase = "walk" /\ ls.variant = "landmass_shape.rs"

WalkEnded == InWalk /\ ls.q = <<>>

\* C24: in the outer boundary walk every cell is dequeued at most once (a
\* queued cell is still Boundary and is queued once) and receives its index
\* when it is dequeued; when the walk ends the indices of the BoundaryFinal
\* cells are exactly 0..n-1 without duplicate, the outer edge root carries
\* index 0, and the BoundaryFinal cells are exactly the Boundary cells that an
\* 8-connected path of Boundary cells joins to the root.
C24_WalkIndexesOuterEdge ==
  InWalk =>
    /\ \A i \in 1..Len(ls.q) :
         /\ ls.grid[ls.q[i]] = "Boundary"
         /\ \A j \in 1..Len(ls.q) : ls.q[i] = ls.q[j] => i = j
    /\ {ls.idx[c] : c \in BoundaryFinals} = 0..(ls.index - 1)
    /\ Cardinality(BoundaryFinals) = ls.index
    /\ WalkEnded =>
         /\ ls.idx[ls.root[1]] = 0
         /\ ls.grid[ls.root[1]] = "BoundaryFinal"
         /\ BoundaryFinals = Joined8(Range(ls.all_edges), {ls.root[1]})

\* C24 witness: the walk has ended with at least four cells indexed while a
\* Boundary cell that no path joins to the root is left.
C24_Witness ==
  /\ WalkEnded
  /\ Cardinality(BoundaryFinals) >= 4
  /\ \E c \in World : ls.grid[c] = "Boundary"

\* The hole fill is running or has ended.
InHoles == ls # Idle /\ ls.phase \in {"holes", "done"}

HolesEnded == InHoles /\ (ls.phase = "done" \/ ls.q = <<>>)

\* the cells no fill had put into the grid when the walk ended
UnknownAfterWalk == World \ Range(ls.sampled)

\* the Boundary cells the walk left
LeftoverBoundary == Range(ls.all_edges) \ Range(ls.outer_edges)

\* The cells of `allowed` that a 4-connected path of cells of `allowed` joins
\* to the cells of `reached`; `frontier` holds the cells reached last.
RECURSIVE Flood4(_, _, _)
Flood4(allowed, reached, frontier) ==
  LET more == {c \in allowed \ reached : \E f \in frontier : Adjacent4(c, f)}
  IN IF more = {} THEN reached ELSE Flood4(allowed, reached \cup more, more)

\* the corner of the window, which no fill can reach
WorldCorner == CHOOSE c \in World : \A w \in World : c[1] <= w[1] /\ c[2] <= w[2]

\* the unbounded exterior of the shape: the unknown cells that a 4-connected
\* path of unknown cells joins to the rim of the window
Exterior == Flood4(UnknownAfterWalk, {WorldCorner}, {WorldCorner})

\* the leftover Boundary cells and the unknown cells 4-connected to them
\* through unknown cells
HoleRegion == Flood4(UnknownAfterWalk \cup LeftoverBoundary, LeftoverBoundary, LeftoverBoundary)

Presents == {c \in World : ls.grid[c] = "Present"}

\* C25: the hole fill relabels only cells the outer ring encloses: it never
\* reaches a cell of the unbounded exterior, never overwrites a BoundaryFinal
\* cell, and when it ends the cells it has turned Present are exactly the
\* Boundary cells the walk left and the unknown cells 4-connected to one of
\* them through unknown cells.
C25_HoleFillStaysInside ==
  InHoles =>
    /\ ~ls.escaped
    /\ \A c \in Range(ls.outer_edges) : ls.grid[c] = "BoundaryFinal"
    /\ \A i \in 1..Len(ls.q) : ls.grid[ls.q[i]] \in {"None", "Boundary"}
    /\ HolesEnded =>
         /\ Presents \cap Exterior = {}
         /\ BoundaryFinals = Range(ls.outer_edges)
         /\ Presents = (Range(ls.sampled) \ Range(ls.all_edges)) \cup HoleRegion

\* C25 witness: the hole fill has ended after it turned into Present the
\* Boundary cells of a hole and an unknown cell between them.
C25_Witness ==
  /\ HolesEnded
  /\ LeftoverBoundary # {}
  /\ HoleRegion # LeftoverBoundary
  /\ HoleRegion \subseteq Presents

\* discover of landmass_shape.rs is running or has ended
InDiscover == ls # Idle /\ ls.variant = "landmass_shape.rs"

\* C26: on every field on which discover runs the branches marked unreachable
\* are never taken: when the outer edge root is searched no cell is
\* BoundaryFinal and at least one cell is Boundary; when the indexes of the
\* outer edges are read every cell of outer_edges is BoundaryFinal; when the
\* final pass runs no cell is Boundary.
C26_UnreachableIsUnreachable ==
  InDiscover =>
    /\ ls.panic # "unreachable"
    /\ FillEnded =>
         /\ BoundaryFinals = {}
         /\ \E c \in World : ls.grid[c] = "Boundary"
    /\ (ls.phase = "holes" /\ ls.q = <<>>) =>
         /\ \A i \in 1..Len(ls.outer_edges) : ls.grid[ls.outer_edges[i]] = "BoundaryFinal"
         /\ ls.outer_edges # <<>>
         /\ \A c \in World : ls.grid[c] # "Boundary"

\* C26 witness: discover of landmass_shape.rs has returned the cells of a
\* field whose walk left Boundary cells to the hole fill.
C26_Witness ==
  /\ InDiscover
  /\ ls.phase = "done"
  /\ ls.result # None
  /\ LeftoverBoundary # {}

\* discover of landmass_shape.rs has returned its grid of LandmassCells
Discovered == InDiscover /\ ls.phase = "done" /\ ls.result # None

Packed == pk # Idle /\ pk.phase = "returned"

\* the candidate of a size anchored at a cell
CandidateAt(pos, size) ==
  BuildingShape(pos, <<pos[1] + size[1] - 1, pos[2] + size[2] - 1>>)

\* the candidate lies on Vacant cells only and its ring lies inside the grid
ValidCandidate(grid, building) ==
  /\ \A p \in Inside(building) : PackGet(grid, p) = Vacant
  /\ \A p \in Edge(building) : PackGet(grid, p) # Unknown

\* C28: when the packing loop stops there is no rectangle of any allowed
\* width and height, anchored at any cell of the occupancy grid, whose
\* interior is entirely Vacant and whose halo lies entirely inside the grid.
C28_PackingStopsWhenNothingFits ==
  Packed =>
    \A size \in BuildingSizes : \A pos \in DOMAIN pk.grid :
      pk.grid[pos] # Unknown => ~ValidCandidate(pk.grid, CandidateAt(pos, size))

\* the number of Occupied cells of the halo of a building
HaloCount(grid, building) ==
  Cardinality({p \in Edge(building) : PackGet(grid, p).tag = "Occupied"})

\* width and height of a building
SizeOf(building) ==
  <<building.edge_max[1] - building.edge_min[1] + 1,
    building.edge_max[2] - building.edge_min[2] + 1>>

\* a round of the packing loop has placed a building
RoundPlaced ==
  /\ pk # Idle
  /\ pk.phase = "packing"
  /\ pk'.phase = "packing"
  /\ Len(pk'.buildings) = Len(pk.buildings) + 1

\* C29: in each packing round a width and a height are drawn within the
\* configured bounds and the candidate of that size is generated for every
\* vacant cell; the building placed in the round is one of these candidates,
\* is valid, and its count of Occupied halo cells is the largest over all
\* valid candidates of the round.
C29_PlacedBuildingScoresHighest ==
  [][RoundPlaced =>
       LET placed == pk'.buildings[Len(pk'.buildings)]
       IN /\ SizeOf(placed) \in BuildingSizes
          /\ PackGet(pk.grid, placed.edge_min) = Vacant
          /\ ValidCandidate(pk.grid, placed)
          /\ \A pos \in DOMAIN pk.grid :
               (pk.grid[pos] = Vacant /\ ValidCandidate(pk.grid, CandidateAt(pos, SizeOf(placed))))
                 => HaloCount(pk.grid, CandidateAt(pos, SizeOf(placed))) <= HaloCount(pk.grid, placed)]_vars

\* C29 witness: the second building was placed against the first while a
\* valid candidate of the same size with fewer Occupied halo cells existed.
C29_Witness ==
  /\ pk # Idle
  /\ pk.phase = "packing"
  /\ Len(pk.buildings) = 2
  /\ Edge(pk.buildings[2]) \cap Inside(pk.buildings[1]) # {}
  /\ \E pos \in DOMAIN pk.grid :
       LET other == CandidateAt(pos, SizeOf(pk.buildings[2]))
       IN /\ ValidCandidate(pk.grid, other)
          /\ Edge(other) \cap Inside(pk.buildings[1]) = {}

\* The queue of the running flood fill holds no cell twice, and every cell
\* it holds still carries the label a cell must have to be pushed: a cell
\* that was popped has lost that label and is not pushed again.
QueueHoldsFreshCells ==
  ls # Idle =>
    \A i \in 1..Len(ls.q) :
      /\ \A j \in 1..Len(ls.q) : ls.q[i] = ls.q[j] => i = j
      /\ ls.phase = "fill" => ls.grid[ls.q[i]] = "None"
      /\ ls.phase = "walk" => ls.grid[ls.q[i]] = "Boundary"
      /\ ls.phase = "holes" => ls.grid[ls.q[i]] \in {"None", "Boundary"}

\* the Vacant cells of the working grid before the first round
VacantAtStart == {p \in PackWindow : WorkingGrid(pk.landmass)[p] = Vacant}

\* the buildings placed so far cover at least the minimum area each
PackingIsBounded ==
  (pk # Idle /\ pk.phase # "called") =>
    Len(pk.buildings) * MinBuildingSize * MinBuildingSize <= Cardinality(VacantAtStart)

\* discover has returned, or generate_new has refused the size, or
\* generate_building_shapes has returned
Terminated ==
  \/ ls # Idle /\ ls.phase = "done" /\ ls.q = <<>>
  \/ ls # Idle /\ ls.phase = "panicked" /\ ls.panic = "landmass size may not be less than 1"
  \/ Packed

\* C30: for every field whose positive region joined to the origin is finite
\* (a field not positive at the origin included) each of the three flood-fill
\* loops of discover pushes no cell twice and ends, its queue empty, so that
\* discover returns; the packing loop ends on every finite occupancy grid,
\* and the buildings it places number at most the vacant cells divided by the
\* least building area.
C30_LoopsTerminate ==
  /\ [](QueueHoldsFreshCells /\ PackingIsBounded)
  /\ <>Terminated

\* C30 witness: discover has ended on the ring-shaped field after its three
\* loops ran, the hole fill through a cell that was never sampled.
C30_Witness ==
  /\ ls # Idle
  /\ ls.phase = "done"
  /\ ls.q = <<>>
  /\ ls.noise = HoleField
  /\ Cardinality(Presents) > Cardinality(HoleField) + Cardinality(LeftoverBoundary)

====
